---------------------------- MODULE Spec2Model ----------------------------
(***************************************************************************)
(* A model of the analytics engine of the marketing-report backend:        *)
(*   src/backend/anomaly_detector.py   AnomalyDetector                     *)
(*   src/backend/kpi_calculator.py     KPICalculator                       *)
(*   src/backend/benchmarking.py       BenchmarkAnalyzer                   *)
(*   src/backend/weather_analyzer.py   WeatherAnalyzer                     *)
(*   src/backend/pipeline.py           DataPipeline                        *)
(*   src/backend/app.py                upload_and_generate                 *)
(*                                                                         *)
(* Each analyzer is one state machine over its own private copy of the     *)
(* dataset (self.df); the analyzers share no state, so each has its own    *)
(* specification (SpecAnomaly, SpecSeverity, SpecKPI, SpecBench,           *)
(* SpecWeather) over the variables below.  A variable that belongs to      *)
(* another analyzer keeps its initial value.  SpecRules runs the rules     *)
(* that derive recommendations, of an AnomalyDetector or of a              *)
(* BenchmarkAnalyzer, whichever the behaviour starts with.                 *)
(* SpecAnomalySummary is the AnomalyDetector with its summary asked for    *)
(* between the detection calls, SpecPopulation the AnomalyDetector over    *)
(* populations of every size up to MaxPopulation.  SpecRequest is one      *)
(* request to upload_and_generate, from the uploaded files to the          *)
(* response, through the pipeline, the analyzers and the renderer.         *)
(*                                                                         *)
(* Numbers.  The code computes in binary floating point; the model         *)
(* computes in exact rational arithmetic.  A float is a record             *)
(*   [k, num, den]             k = "num": num/den; k = "nan"; k = "inf"    *)
(* with num/den in lowest terms, and a Z-score (which the code always      *)
(* takes the absolute value of) is the same record read as its square,     *)
(*   [k, num, den]             the value sqrt(num/den), or NaN             *)
(* so that  z > t  is decided exactly as  num/den > t*t  for t >= 0.       *)
(* Thresholds are counted in halves (4 is 2.0, 5 is 2.5, 6 is 3.0).        *)
(***************************************************************************)
EXTENDS Integers, Sequences, FiniteSets, TLC

VARIABLES
    df,                 \* self.df: [cols: set of column names, rows: Seq of rows]
    z_score_threshold,  \* AnomalyDetector.z_score_threshold, in halves
    anomalies,          \* AnomalyDetector.anomalies
    op,                 \* the last operation called on the analyzer ("" = none yet)
    returned,           \* what that operation returned
    kpis,               \* KPICalculator.kpis
    aggregations,       \* KPICalculator.aggregations
    pc,                 \* the step calculate_all is at
    kpi_summary,        \* BenchmarkAnalyzer.kpi_summary
    benchmarks,         \* BenchmarkAnalyzer.benchmarks
    comparisons,        \* BenchmarkAnalyzer.comparisons
    correlations,       \* WeatherAnalyzer.correlations
    insights,           \* WeatherAnalyzer.insights
    recommendations,    \* WeatherAnalyzer.recommendations
    pearson,            \* what scipy.stats.pearsonr computes for the samples of df
    analyzer,           \* the class of the instance the operations are called on
    combined_df,        \* the dataset the caller passed to the constructor
    bench_insights,     \* BenchmarkAnalyzer.insights
    bench_recommendations,  \* BenchmarkAnalyzer.recommendations
    upload_paths,       \* upload_and_generate: the saved uploads, filename -> file
    dataframes,         \* DataPipeline.dataframes
    calls,              \* the calls upload_and_generate made, and how each ended
    summaries,          \* the summaries upload_and_generate holds, by local name
    response            \* the response of upload_and_generate

vars == <<df, z_score_threshold, anomalies, op, returned, kpis, aggregations, pc,
          kpi_summary, benchmarks, comparisons, correlations, insights,
          recommendations, pearson, analyzer, combined_df, bench_insights,
          bench_recommendations, upload_paths, dataframes, calls, summaries,
          response>>

\* the variables of each analyzer
anomalyVars == <<z_score_threshold, anomalies>>
kpiVars == <<kpis, aggregations, pc>>
benchVars == <<kpi_summary, benchmarks, comparisons, bench_insights,
               bench_recommendations>>
weatherVars == <<correlations, insights, recommendations, pearson>>
\* what belongs to the caller and not to any analyzer
callerVars == <<analyzer, combined_df>>

\* the variables of the request handler upload_and_generate
requestVars == <<upload_paths, dataframes, calls, summaries, response>>

\* what the operations of one analyzer leave alone of the others
notAnomaly == <<kpiVars, benchVars, weatherVars, callerVars, requestVars>>
notKPI == <<anomalyVars, benchVars, weatherVars, analyzer, requestVars>>
notBench == <<df, anomalyVars, kpiVars, weatherVars, callerVars, requestVars>>
notWeather == <<anomalyVars, kpiVars, benchVars, callerVars, requestVars>>

\* an analyzer that is not part of the specification at hand
NoAnomalyDetector == z_score_threshold = 0 /\ anomalies = <<>>
NoKPICalculator == kpis = <<>> /\ aggregations = <<>> /\ pc = ""
NoBenchmarkAnalyzer ==
    /\ kpi_summary = <<>> /\ benchmarks = <<>> /\ comparisons = <<>>
    /\ bench_insights = <<>> /\ bench_recommendations = <<>>
NoWeatherAnalyzer ==
    correlations = <<>> /\ insights = <<>> /\ recommendations = <<>> /\ pearson = <<>>

\* an analyzer used on its own, outside a request
NoRequest ==
    /\ upload_paths = <<>> /\ dataframes = <<>> /\ calls = <<>>
    /\ summaries = <<>> /\ response = <<>>

(***************************************************************************)
(* Bounds of the model.                                                    *)
(***************************************************************************)
MaxRows == 10        \* rows of a dataset handed to the AnomalyDetector
MaxOutliers == 1     \* rows of it that carry the high value
MaxDays == 1         \* the largest `days` passed to detect_recent_anomalies

(***************************************************************************)
(* Arithmetic helpers.                                                     *)
(***************************************************************************)
NaN == -1            \* a missing cell (pandas NaN); counters are >= 0

Abs(x) == IF x < 0 THEN -x ELSE x

RECURSIVE Gcd(_, _)
Gcd(a, b) == IF b = 0 THEN a ELSE Gcd(b, a % b)

RECURSIVE SumSeq(_)
SumSeq(s) == IF s = <<>> THEN 0 ELSE Head(s) + SumSeq(Tail(s))

RECURSIVE GcdSeq(_)
GcdSeq(s) == IF s = <<>> THEN 0 ELSE Gcd(Head(s), GcdSeq(Tail(s)))

RECURSIVE Flatten(_)
Flatten(ss) == IF ss = <<>> THEN <<>> ELSE Head(ss) \o Flatten(Tail(ss))

Range(s) == {s[i] : i \in 1..Len(s)}

\* a/b < c/d for a, c >= 0 and b, d > 0, by Euclid's algorithm (the products
\* a*d and c*b may not fit 32-bit integers)
RECURSIVE FracLess(_, _, _, _)
FracLess(a, b, c, d) ==
    LET qa == a \div b
        qc == c \div d
        ra == a % b
        rc == c % d
    IN IF qa # qc THEN qa < qc
       ELSE IF rc = 0 THEN FALSE
       ELSE IF ra = 0 THEN TRUE
       ELSE FracLess(d, rc, b, ra)

(***************************************************************************)
(* Floats.                                                                 *)
(***************************************************************************)
FNaN == [k |-> "nan", num |-> 0, den |-> 1]
FInf == [k |-> "inf", num |-> 0, den |-> 1]

\* the float a/b for b > 0, in lowest terms
Frac(a, b) ==
    LET g == Gcd(Abs(a), b)
    IN [k |-> "num", num |-> a \div g, den |-> b \div g]

FZero == Frac(0, 1)

IsZero(f) == f.k = "num" /\ f.num = 0

(***************************************************************************)
(* pandas Series statistics of one column (a sequence of cells).           *)
(***************************************************************************)
Column(d, col) == [i \in 1..Len(d.rows) |-> d.rows[i][col]]

IsPresent(v) == v # NaN

\* Series.dropna()
DropNa(cells) == SelectSeq(cells, IsPresent)

\* The sums of one population (a column, or one group's cells of it), taken
\* once.  Z-scores do not change when every value is divided by the same
\* unit; `s` and `spread` are taken in that unit to keep them small.
\*   n       the number of present cells
\*   sum     their sum
\*   s       their sum, in units
\*   spread  n * (n-1) * variance in units: n * sum(x^2) - sum(x)^2, which
\*           is zero exactly when all the present values are equal
Stats(cells) ==
    LET x == DropNa(cells)
        g == GcdSeq(x)
        u == IF g = 0 THEN 1 ELSE g
        xs == [i \in 1..Len(x) |-> x[i] \div u]
        s == SumSeq(xs)
    IN [n |-> Len(x), sum |-> SumSeq(x), unit |-> u, s |-> s,
        spread |-> Len(x) * SumSeq([i \in 1..Len(xs) |-> xs[i] * xs[i]]) - s * s]

\* Series.mean(): NaN cells are skipped; the mean of nothing is NaN
Mean(st) == IF st.n = 0 THEN FNaN ELSE Frac(st.sum, st.n)

\* Series.std() == 0 (sample standard deviation, divisor n-1; NaN when
\* fewer than two values are present, and NaN == 0 is false)
StdIsZero(st) == st.n >= 2 /\ st.spread = 0

\* the same with the population standard deviation (divisor n):
\*   z^2 = (n*v - S)^2 / (n*Q - S^2)
AbsZPopulation(v, st) ==
    LET d == st.n * (v \div st.unit) - st.s
    IN IF v = NaN \/ st.n < 2 \/ st.spread = 0 THEN FNaN
       ELSE Frac(d * d, st.spread)

\* np.abs((v - mean) / std) for one cell v of a population with sums st:
\*   z^2 = (n-1) * (n*v - S)^2 / (n * (n*Q - S^2))
\* NaN for a missing cell, for a NaN std (n < 2) and for 0/0 (std = 0).
AbsZ(v, st) ==
    LET d == st.n * (v \div st.unit) - st.s
    IN IF v = NaN \/ st.n < 2 \/ st.spread = 0 THEN FNaN
       ELSE Frac((st.n - 1) * d * d, st.n * st.spread)

\* ((value - mean) / mean * 100) if mean != 0 else 0
PctChange(v, st) ==
    IF st.n > 0 /\ st.sum = 0 THEN FZero
    ELSE IF st.n = 0 \/ v = NaN THEN FNaN
    ELSE Frac(100 * (st.n * v - st.sum), st.sum)

(***************************************************************************)
(* AnomalyDetector.                                                        *)
(***************************************************************************)
\* z > h/2, for a threshold of h halves (a NaN compares false)
ZGreater(z, h) == z.k = "num" /\ (h < 0 \/ 4 * z.num > h * h * z.den)

\* the thresholds of _calculate_severity, in halves
CriticalZ == 6
WarningZ == 5

\* z_score_threshold: the default 2.0, in halves
DefaultThreshold == 4

\* the ladder evaluated low-to-high: every flagged value stops at the first rung
CalculateSeverityLowFirst(z) ==
    IF ZGreater(z, DefaultThreshold) THEN "info"
    ELSE IF ZGreater(z, WarningZ) THEN "warning"
    ELSE "critical"

\* _calculate_severity
CalculateSeverity(z) ==
    IF ZGreater(z, CriticalZ) THEN "critical"
    ELSE IF ZGreater(z, WarningZ) THEN "warning"
    ELSE "info"

\* `>=` in place of `>`
IsFlaggedInclusive(z, threshold) ==
    z.k = "num" /\ (threshold < 0 \/ 4 * z.num >= threshold * threshold * z.den)

\* `if z_score > self.z_score_threshold`
IsFlagged(z, threshold) == ZGreater(z, threshold)

\* calculate_z_scores: the Series of |z| over df.index, <<>> for pd.Series()
CalculateZScores(d, metric) ==
    IF metric \notin d.cols THEN <<>>
    ELSE LET cells == Column(d, metric)
             st == Stats(cells)
         IN IF st.n < 2 THEN <<>>
            ELSE IF StdIsZero(st) THEN [i \in 1..Len(cells) |-> FZero]
            ELSE [i \in 1..Len(cells) |-> AbsZ(cells[i], st)]

NoDate == 0          \* None: the dataset has no date column (dates are >= 1)

DateOf(d, i) == IF "date" \in d.cols THEN d.rows[i].date ELSE NoDate

\* the anomaly record of detect_anomalies_by_metric (ungrouped branch)
MkAnomaly(d, i, metric, z, st) ==
    [date |-> DateOf(d, i), metric |-> metric, value |-> d.rows[i][metric],
     z_score |-> z, severity |-> CalculateSeverity(z),
     pct_change |-> PctChange(d.rows[i][metric], st),
     baseline_mean |-> Mean(st)]

\* detect_anomalies_by_metric, `else` branch: across all data
DetectUngrouped(d, metric, threshold) ==
    LET zs == CalculateZScores(d, metric)
        st == Stats(Column(d, metric))
        RECURSIVE Go(_)
        Go(i) == IF i > Len(zs) THEN <<>>
                 ELSE (IF IsFlagged(zs[i], threshold)
                       THEN <<MkAnomaly(d, i, metric, zs[i], st)>>
                       ELSE <<>>) \o Go(i + 1)
    IN Go(1)

\* self.df[self.df[col] == value].index
RowsWhere(d, col, value) == SelectSeq([i \in 1..Len(d.rows) |-> i], LAMBDA i : d.rows[i][col] = value)

\* Series.unique(): the distinct values in order of first appearance
RECURSIVE Unique(_)
Unique(cells) ==
    IF cells = <<>> THEN <<>>
    ELSE LET rest == Unique(SelectSeq(Tail(cells), LAMBDA v : v # Head(cells)))
         IN <<Head(cells)>> \o rest

\* the anomaly record of _detect_within_group
MkGroupAnomaly(d, i, metric, z, st, group_value, group_col) ==
    [date |-> DateOf(d, i), metric |-> metric, value |-> d.rows[i][metric],
     z_score |-> z, severity |-> CalculateSeverity(z),
     pct_change |-> PctChange(d.rows[i][metric], st),
     baseline_mean |-> Mean(st),
     group |-> group_value, group_col |-> group_col]

\* the Z-scores _detect_within_group computes for the rows `idx` of one group
GroupZScores(d, metric, idx) ==
    LET cells == [j \in 1..Len(idx) |-> d.rows[idx[j]][metric]]
        st == Stats(cells)
    IN [j \in 1..Len(idx) |-> AbsZ(cells[j], st)]

\* _detect_within_group, for the rows `idx` (ascending) of the group
DetectWithinGroup(d, metric, idx, group_value, group_col, threshold) ==
    LET st == Stats([j \in 1..Len(idx) |-> d.rows[idx[j]][metric]])
        zs == GroupZScores(d, metric, idx)
        RECURSIVE Go(_)
        Go(j) == IF j > Len(idx) THEN <<>>
                 ELSE (IF IsFlagged(zs[j], threshold)
                       THEN <<MkGroupAnomaly(d, idx[j], metric, zs[j], st, group_value, group_col)>>
                       ELSE <<>>) \o Go(j + 1)
    IN IF Len(idx) < 3 THEN <<>> ELSE Go(1)

\* detect_anomalies_by_metric; by_group = "" stands for None
DetectAnomaliesByMetric(d, metric, by_group, threshold) ==
    IF metric \notin d.cols THEN <<>>
    ELSE IF by_group # "" /\ by_group \in d.cols
    THEN LET groups == Unique(Column(d, by_group))
         IN Flatten([g \in 1..Len(groups) |->
                DetectWithinGroup(d, metric, RowsWhere(d, by_group, groups[g]),
                                  groups[g], by_group, threshold)])
    ELSE DetectUngrouped(d, metric, threshold)

RECURSIVE MaxOf(_)
MaxOf(s) == IF Len(s) = 1 THEN s[1]
            ELSE LET m == MaxOf(Tail(s)) IN IF Head(s) > m THEN Head(s) ELSE m

\* the anomaly record of detect_recent_anomalies
MkRecentAnomaly(d, i, metric, z, st) ==
    [date |-> d.rows[i].date, metric |-> metric, value |-> d.rows[i][metric],
     z_score |-> z, severity |-> CalculateSeverity(z),
     pct_change |-> PctChange(d.rows[i][metric], st)]

\* self.df['date'] >= recent_date, recent_date = max() - timedelta(days=days)
InRecentWindowExclusive(date, latest, days) == date > latest - days
InRecentWindow(date, latest, days) == date >= latest - days

\* detect_recent_anomalies
DetectRecentAnomalies(d, metric, days, threshold) ==
    IF "date" \notin d.cols \/ metric \notin d.cols \/ d.rows = <<>> THEN <<>>
    ELSE LET latest == MaxOf(Column(d, "date"))
             zs == CalculateZScores(d, metric)
             st == Stats(Column(d, metric))
             RECURSIVE Go(_)
             Go(i) == IF i > Len(zs) THEN <<>>
                      ELSE (IF InRecentWindow(d.rows[i].date, latest, days)
                               /\ IsFlagged(zs[i], threshold)
                            THEN <<MkRecentAnomaly(d, i, metric, zs[i], st)>>
                            ELSE <<>>) \o Go(i + 1)
         IN Go(1)

\* the numeric columns of the dataset, in column order
\* (df.select_dtypes(include=[np.number]).columns)
NumericColumns == <<"impressions", "clicks">>

AutoMetrics(d) == SelectSeq(NumericColumns, LAMBDA c : c \in d.cols)

\* detect_all_anomalies: the all_anomalies dict as the sequence of its
\* (metric, anomalies) items in insertion order; metrics = <<"auto">> stands
\* for metrics_to_check = None
DetectAll(d, metrics, threshold) ==
    LET to_check == IF metrics = <<"auto">> THEN AutoMetrics(d) ELSE metrics
        found == [j \in 1..Len(to_check) |->
                    [metric |-> to_check[j],
                     anomalies |-> DetectAnomaliesByMetric(d, to_check[j], "", threshold)]]
    IN SelectSeq(found, LAMBDA item : item.anomalies # <<>>)

\* self.anomalies extended instead of assigned
StoredAnomaliesAccumulating(old, all_anomalies) ==
    old \o Flatten([j \in 1..Len(all_anomalies) |-> all_anomalies[j].anomalies])

\* the list detect_all_anomalies stores in self.anomalies (old: the list it held)
StoredAnomalies(old, all_anomalies) ==
    Flatten([j \in 1..Len(all_anomalies) |-> all_anomalies[j].anomalies])

\* a.z_score > b.z_score
ZLess(a, b) == FracLess(a.num, a.den, b.num, b.den)

\* sorted(filtered, key=z_score, reverse=True): stable, descending
RECURSIVE SortByZDesc(_)
SortByZDesc(s) ==
    IF s = <<>> THEN <<>>
    ELSE LET rest == SortByZDesc(Tail(s))
             \* Head goes after the elements of rest with a z above its own
             k == Cardinality({j \in 1..Len(rest) : ZLess(Head(s).z_score, rest[j].z_score)})
         IN SubSeq(rest, 1, k) \o <<Head(s)>> \o SubSeq(rest, k + 1, Len(rest))

\* the first n of the filtered list, left in the order recorded
GetTopAnomaliesAsRecorded(list, n, severity) ==
    LET filtered == IF severity # "" THEN SelectSeq(list, LAMBDA a : a.severity = severity)
                    ELSE list
    IN SubSeq(filtered, 1, IF n < Len(filtered) THEN n ELSE Len(filtered))

\* get_top_anomalies; severity = "" stands for None
GetTopAnomalies(list, n, severity) ==
    LET filtered == IF severity # "" THEN SelectSeq(list, LAMBDA a : a.severity = severity)
                    ELSE list
        sorted == SortByZDesc(filtered)
    IN SubSeq(sorted, 1, IF n < Len(sorted) THEN n ELSE Len(sorted))

(***************************************************************************)
(* The datasets handed to the AnomalyDetector: n rows, one per day; the    *)
(* last k rows carry the high impressions value, the others the base       *)
(* value; the first `split` rows belong to channel "email", the others to  *)
(* "social"; clicks are proportional to impressions, constant, or          *)
(* proportional with the first cell missing.                               *)
(***************************************************************************)
Levels == <<0, 100, 10000>>

ClickModes == {"proportional", "constant", "gap"}

AnomalyRow(i, n, k, base, split, mode) ==
    LET imp == IF i > n - k THEN Levels[3] ELSE base
    IN [date |-> i,
        channel |-> IF i <= split THEN "email" ELSE "social",
        impressions |-> imp,
        clicks |-> CASE mode = "proportional" -> imp \div 20
                     [] mode = "constant" -> 7
                     [] OTHER -> IF i = 1 THEN NaN ELSE imp \div 20]

AnomalyDataset(n, k, base, split, mode) ==
    [cols |-> {"date", "channel", "impressions", "clicks"},
     rows |-> [i \in 1..n |-> AnomalyRow(i, n, k, base, split, mode)]]

AnomalyDatasets ==
    {AnomalyDataset(c[1], c[2], c[3], c[4], c[5]) :
        c \in {c \in (0..MaxRows) \X (0..MaxOutliers) \X {Levels[1], Levels[2]}
                      \X (0..MaxRows) \X ClickModes :
                  /\ c[2] <= c[1]
                  /\ c[4] \in {c[1], c[1] \div 2}
                  /\ c[3] = Levels[1] => c[5] = "proportional"}}

\* z_score_threshold: the default, and 0 and -1.0, in halves
Thresholds == {-2, 0, DefaultThreshold}

Metrics == {"impressions", "clicks"}

MetricLists == {<<"auto">>, <<"impressions">>, <<"clicks">>}

TopDefault == 5      \* get_top_anomalies(n=5)

NoCall == [name |-> "", args |-> <<>>]

\* AnomalyDetector.__init__
InitAnomaly ==
    /\ analyzer = "AnomalyDetector"
    /\ df \in AnomalyDatasets
    /\ combined_df = df
    /\ z_score_threshold \in Thresholds
    /\ anomalies = <<>>
    /\ op = NoCall
    /\ returned = <<>>
    /\ NoKPICalculator /\ NoBenchmarkAnalyzer /\ NoWeatherAnalyzer
    /\ NoRequest

CalculateZScoresCall ==
    \E metric \in Metrics :
        /\ op' = [name |-> "calculate_z_scores", args |-> <<metric>>]
        /\ returned' = CalculateZScores(df, metric)
        /\ UNCHANGED <<df, z_score_threshold, anomalies, notAnomaly>>

DetectAnomaliesByMetricCall ==
    \E metric \in Metrics, by_group \in {"", "channel"} :
        /\ op' = [name |-> "detect_anomalies_by_metric", args |-> <<metric, by_group>>]
        /\ returned' = DetectAnomaliesByMetric(df, metric, by_group, z_score_threshold)
        /\ UNCHANGED <<df, z_score_threshold, anomalies, notAnomaly>>

DetectRecentAnomaliesCall ==
    \E metric \in Metrics, days \in 0..MaxDays :
        /\ op' = [name |-> "detect_recent_anomalies", args |-> <<metric, days>>]
        /\ returned' = DetectRecentAnomalies(df, metric, days, z_score_threshold)
        /\ UNCHANGED <<df, z_score_threshold, anomalies, notAnomaly>>

DetectAllAnomaliesCall ==
    \E metrics \in MetricLists :
        /\ op' = [name |-> "detect_all_anomalies", args |-> <<metrics>>]
        /\ returned' = DetectAll(df, metrics, z_score_threshold)
        /\ anomalies' = StoredAnomalies(anomalies, returned')
        /\ UNCHANGED <<df, z_score_threshold, notAnomaly>>

GetTopAnomaliesCall ==
    \E n \in {1, TopDefault}, severity \in {"", "critical"} :
        /\ op' = [name |-> "get_top_anomalies", args |-> <<n, severity>>]
        /\ returned' = GetTopAnomalies(anomalies, n, severity)
        /\ UNCHANGED <<df, z_score_threshold, anomalies, notAnomaly>>

NextAnomaly ==
    \/ CalculateZScoresCall
    \/ DetectAnomaliesByMetricCall
    \/ DetectRecentAnomaliesCall
    \/ DetectAllAnomaliesCall
    \/ GetTopAnomaliesCall

SpecAnomaly == InitAnomaly /\ [][NextAnomaly]_vars

(***************************************************************************)
(* An AnomalyDetector over populations of every make-up: a dataset of up   *)
(* to MaxPopulation rows whose impressions take three levels, `low` rows   *)
(* of the first, `mid` (MaxMid at most) of the second and the others of    *)
(* the third; clicks repeat impressions with the first MissingClicks cells *)
(* missing; the first EmailRows rows belong to channel "email", the others *)
(* to "social".                                                            *)
(***************************************************************************)
MaxPopulation == 11

ValueLevels == <<0, 20, 100>>

\* at most so many rows of the middle level
MaxMid == 2

\* the first cells of clicks that are missing, and the rows of channel email
MissingClicks == 5
EmailRows == 5

PopulationRow(i, low, mid, gap, split) ==
    LET v == IF i <= low THEN ValueLevels[1]
             ELSE IF i <= low + mid THEN ValueLevels[2] ELSE ValueLevels[3]
    IN [date |-> i,
        channel |-> IF i <= split THEN "email" ELSE "social",
        impressions |-> v,
        clicks |-> IF i <= gap THEN NaN ELSE v]

PopulationDataset(n, low, mid, gap, split) ==
    [cols |-> {"date", "channel", "impressions", "clicks"},
     rows |-> [i \in 1..n |-> PopulationRow(i, low, mid, gap, split)]]

InitPopulation ==
    /\ analyzer = "AnomalyDetector"
    /\ \E n \in 0..MaxPopulation :
          \E low \in 0..n : \E mid \in 0..(IF n - low < MaxMid THEN n - low ELSE MaxMid) :
              df = PopulationDataset(n, low, mid, MissingClicks, EmailRows)
    /\ combined_df = df
    /\ z_score_threshold \in {0, DefaultThreshold}
    /\ anomalies = <<>>
    /\ op = NoCall
    /\ returned = <<>>
    /\ NoKPICalculator /\ NoBenchmarkAnalyzer /\ NoWeatherAnalyzer
    /\ NoRequest

NextPopulation ==
    \/ CalculateZScoresCall
    \/ DetectAnomaliesByMetricCall
    \/ DetectRecentAnomaliesCall
    \/ DetectAllAnomaliesCall

SpecPopulation == InitPopulation /\ [][NextPopulation]_vars

(***************************************************************************)
(* One observation through the flagging test and the severity ladder, for  *)
(* Z-scores counted in tenths (31 is 3.1).                                 *)
(***************************************************************************)
MaxZTenths == 40

ZOfTenths(t) == Frac(t * t, 100)

InitSeverity ==
    /\ analyzer = "AnomalyDetector"
    /\ df = [cols |-> {}, rows |-> <<>>]
    /\ combined_df = df
    /\ z_score_threshold \in Thresholds
    /\ anomalies = <<>>
    /\ op = NoCall
    /\ returned = <<>>
    /\ NoKPICalculator /\ NoBenchmarkAnalyzer /\ NoWeatherAnalyzer
    /\ NoRequest

\* _calculate_severity(z_score)
CalculateSeverityCall ==
    \E t \in 0..MaxZTenths :
        /\ op' = [name |-> "_calculate_severity", args |-> <<t>>]
        /\ returned' = <<CalculateSeverity(ZOfTenths(t))>>
        /\ UNCHANGED <<df, z_score_threshold, anomalies, notAnomaly>>

\* the body of the detection loops for one observation with Z-score z:
\*   if z_score > self.z_score_threshold: severity = self._calculate_severity(z_score)
\* returned: <<severity>> when the observation is flagged, <<>> when not
FlagObservation ==
    \E t \in 0..MaxZTenths :
        /\ op' = [name |-> "flag", args |-> <<t>>]
        /\ returned' = IF IsFlagged(ZOfTenths(t), z_score_threshold)
                       THEN <<CalculateSeverity(ZOfTenths(t))>>
                       ELSE <<>>
        /\ UNCHANGED <<df, z_score_threshold, anomalies, notAnomaly>>

\* a NaN Z-score (0/0) through the same test
FlagNaN ==
    /\ op' = [name |-> "flag_nan", args |-> <<>>]
    /\ returned' = IF IsFlagged(FNaN, z_score_threshold)
                   THEN <<CalculateSeverity(FNaN)>>
                   ELSE <<>>
    /\ UNCHANGED <<df, z_score_threshold, anomalies, notAnomaly>>

NextSeverity == CalculateSeverityCall \/ FlagObservation \/ FlagNaN

SpecSeverity == InitSeverity /\ [][NextSeverity]_vars

(***************************************************************************)
(* Claims about the AnomalyDetector.                                       *)
(***************************************************************************)
\* the dataset of the end-to-end scenario: 10 rows, one channel "email",
\* impressions = [100]*9 + [10000], clicks proportional
ScenarioDf == AnomalyDataset(10, 1, Levels[2], 10, "proportional")

ScenarioDetected ==
    /\ df = ScenarioDf
    /\ z_score_threshold = DefaultThreshold
    /\ op.name = "detect_anomalies_by_metric"

\* C2 as stated: in the end-to-end scenario, detection with the default
\* threshold flags the 10th row with severity critical and no other row.
C2_ScenarioCritical ==
    ScenarioDetected =>
        /\ Len(returned) = 1
        /\ returned[1].date = 10
        /\ returned[1].severity = "critical"

\* C2 amended: in the end-to-end scenario, detection with the default
\* threshold flags the 10th row, and only it, with severity warning: its
\* Z-score is 9/sqrt(10), about 2.85, which is above 2.5 and not above 3.0.
C2_ScenarioWarning ==
    ScenarioDetected =>
        /\ Len(returned) = 1
        /\ returned[1].date = 10
        /\ returned[1].value = df.rows[10][op.args[1]]
        /\ returned[1].z_score = Frac(81, 10)
        /\ returned[1].severity = "warning"

C2_Witness ==
    /\ ScenarioDetected
    /\ op.args = <<"impressions", "">>
    /\ returned # <<>>

\* C3: an observation is flagged iff its Z-score is strictly above the
\* threshold, and a flagged observation is critical above 3.0, warning above
\* 2.5 up to 3.0, info otherwise; 3.1 is critical, 2.6 warning, 2.1 info and
\* 2.0 is not flagged under the default threshold.  (Tenths of z against
\* halves of the threshold: z > threshold iff t > 5 * threshold.)
C3_FlagAndSeverity ==
    /\ op.name = "flag" =>
        LET t == op.args[1] IN
        /\ (returned # <<>>) <=> (t > 5 * z_score_threshold)
        /\ returned # <<>> =>
              returned[1] = (IF t > 30 THEN "critical"
                             ELSE IF t > 25 THEN "warning" ELSE "info")
        /\ z_score_threshold = DefaultThreshold =>
              /\ t = 31 => returned = <<"critical">>
              /\ t = 26 => returned = <<"warning">>
              /\ t = 21 => returned = <<"info">>
              /\ t = 20 => returned = <<>>
    /\ op.name = "flag_nan" => returned = <<>>

C3_Witness ==
    /\ op.name = "flag"
    /\ op.args[1] = 20
    /\ z_score_threshold = DefaultThreshold
    /\ returned = <<>>

\* the cells of `metric` are a constant series: zero variance
IsConstantSeries(cells) == StdIsZero(Stats(cells))

GroupCells(d, metric, group_col, g) ==
    LET idx == RowsWhere(d, group_col, g)
    IN [j \in 1..Len(idx) |-> d.rows[idx[j]][metric]]

\* C4 as stated: for a constant-valued metric series, in ungrouped mode and
\* within each group in grouped mode, every Z-score equals 0 and no anomaly
\* is flagged, whatever the threshold.
C4_ConstantSeriesNeverFlagged ==
    /\ (op.name = "calculate_z_scores" /\ IsConstantSeries(Column(df, op.args[1]))) =>
          \A i \in 1..Len(returned) : returned[i] = FZero
    /\ (op.name = "detect_anomalies_by_metric" /\ op.args[2] = ""
            /\ IsConstantSeries(Column(df, op.args[1]))) =>
          returned = <<>>
    /\ (op.name = "detect_anomalies_by_metric" /\ op.args[2] = "channel") =>
          \A g \in Range(Column(df, "channel")) :
              (Len(RowsWhere(df, "channel", g)) >= 3
                    /\ IsConstantSeries(GroupCells(df, op.args[1], "channel", g))) =>
                  /\ \A a \in Range(returned) : a.group # g
                  /\ \A z \in Range(GroupZScores(df, op.args[1], RowsWhere(df, "channel", g))) :
                        z = FZero

AnomalySet(list) == Range(list)

\* the anomalies a detection call's return value holds
ReturnedAnomalies(o, r) ==
    IF o.name \in {"detect_anomalies_by_metric", "detect_recent_anomalies"}
    THEN Range(r)
    ELSE IF o.name = "detect_all_anomalies"
    THEN UNION {Range(r[j].anomalies) : j \in 1..Len(r)}
    ELSE {}

SumCol(rows, col) == SumSeq(DropNa([i \in 1..Len(rows) |-> rows[i][col]]))

\* (a / b * scale) if b > 0 else 0          (scalars, guarded)
GuardedRatio(a, b, scale) == IF b > 0 THEN Frac(scale * a, b) ELSE FZero

\* a / b * scale on pandas Series cells: x/0 is inf for x > 0 and NaN for x = 0
SeriesRatio(a, b, scale) ==
    IF b # 0 THEN Frac(scale * a, b)
    ELSE IF a = 0 THEN FNaN ELSE FInf

\* Series.fillna(0): NaN becomes 0; inf is not NaN and stays
FillNa(f) == IF f.k = "nan" THEN FZero ELSE f

\* (daily[a] / daily[b] * scale).fillna(0)
DailyRatio(a, b, scale) == FillNa(SeriesRatio(a, b, scale))

\* calculate_basic_kpis: the dict stored as self.kpis['overall']
CalculateBasicKpis(d) ==
    LET imp == SumCol(d.rows, "impressions")
        clk == SumCol(d.rows, "clicks")
        cnv == SumCol(d.rows, "conversions")
        spd == SumCol(d.rows, "spend")
        rev == SumCol(d.rows, "revenue")
        num_days == Len(d.rows)
    IN [total_impressions |-> imp, total_clicks |-> clk, total_conversions |-> cnv,
        total_spend |-> spd, total_revenue |-> rev,
        total_visits |-> IF "visits" \in d.cols THEN SumCol(d.rows, "visits") ELSE 0,
        ctr |-> GuardedRatio(clk, imp, 100),
        cpc |-> GuardedRatio(spd, clk, 1),
        cvr |-> GuardedRatio(cnv, clk, 100),
        cpa |-> GuardedRatio(spd, cnv, 1),
        roas |-> GuardedRatio(rev, spd, 1),
        avg_daily_impressions |-> GuardedRatio(imp, num_days, 1),
        avg_daily_clicks |-> GuardedRatio(clk, num_days, 1),
        avg_daily_conversions |-> GuardedRatio(cnv, num_days, 1)]

RowsOf(d, col, value) == SelectSeq(d.rows, LAMBDA r : r[col] = value)

\* the kpi dict calculate_by_channel / calculate_by_campaign build for one group
GroupKpi(rows, key_col, key) ==
    LET imp == SumCol(rows, "impressions")
        clk == SumCol(rows, "clicks")
        cnv == SumCol(rows, "conversions")
        spd == SumCol(rows, "spend")
        rev == SumCol(rows, "revenue")
    IN [key_col |-> key_col, key |-> key,
        impressions |-> imp, clicks |-> clk, conversions |-> cnv,
        spend |-> spd, revenue |-> rev,
        ctr |-> GuardedRatio(clk, imp, 100),
        cpc |-> GuardedRatio(spd, clk, 1),
        cvr |-> GuardedRatio(cnv, clk, 100),
        cpa |-> GuardedRatio(spd, cnv, 1),
        roas |-> GuardedRatio(rev, spd, 1)]

\* calculate_by_channel, calculate_by_campaign: the dict, as the sequence of
\* its values in insertion order (the order of Series.unique())
CalculateByGroup(d, key_col) ==
    LET keys == Unique(Column(d, key_col))
    IN [j \in 1..Len(keys) |-> GroupKpi(RowsOf(d, key_col, keys[j]), key_col, keys[j])]

\* the metric names of a campaign dict for which metric.startswith('c') holds
StartsWithC == {"campaign", "clicks", "conversions", "ctr", "cpc", "cvr", "cpa"}

\* the ratio metrics of a campaign dict, the ones campaigns are ranked by
RankMetrics == {"ctr", "cpc", "cvr", "cpa", "roas"}

\* x[metric] < y[metric] for two kpi dicts
MetricLess(x, y, metric) == x[metric].num * y[metric].den < y[metric].num * x[metric].den

\* sorted(campaigns, key=metric, reverse=descending): stable in both directions
RECURSIVE SortCampaigns(_, _, _)
SortCampaigns(campaigns, metric, descending) ==
    IF campaigns = <<>> THEN <<>>
    ELSE LET rest == SortCampaigns(Tail(campaigns), metric, descending)
             first == Head(campaigns)
             \* first goes after the elements of rest that sort strictly before it
             k == Cardinality({j \in 1..Len(rest) :
                                 IF descending THEN MetricLess(first, rest[j], metric)
                                 ELSE MetricLess(rest[j], first, metric)})
         IN SubSeq(rest, 1, k) \o <<first>> \o SubSeq(rest, k + 1, Len(rest))

\* sorted_campaigns[:n]
FirstN(s, n) == SubSeq(s, 1, IF n < Len(s) THEN n ELSE Len(s))

\* get_top_performers, given list(self.aggregations['by_campaign'].values())
GetTopPerformers(campaigns, metric, n) ==
    FirstN(SortCampaigns(campaigns, metric, metric \notin StartsWithC), n)

\* s[::-1]
Reverse(s) == [i \in 1..Len(s) |-> s[Len(s) + 1 - i]]

\* the worst performers read off the end of the best-first ranking
GetWorstPerformersByReversal(campaigns, metric, n) ==
    FirstN(Reverse(SortCampaigns(campaigns, metric, metric \notin StartsWithC)), n)

\* get_worst_performers
GetWorstPerformers(campaigns, metric, n) ==
    FirstN(SortCampaigns(campaigns, metric, metric \in StartsWithC), n)

\* the record of a call that ended by raising `exception`
Raising(name, args, exception) == [name |-> name, args |-> args, raised |-> exception]

\* the call just made raised instead of returning
HasRaised(call) == "raised" \in DOMAIN call

\* the columns calculate_basic_kpis reads without looking whether they exist
RequiredCounters == {"impressions", "clicks", "conversions", "spend", "revenue"}

\* calculate_by_city: one dict per city
CityKpi(rows, city) ==
    LET vis == IF rows # <<>> /\ "visits" \in DOMAIN rows[1] THEN SumCol(rows, "visits") ELSE 0
        cnv == SumCol(rows, "conversions")
        spd == SumCol(rows, "spend")
        rev == SumCol(rows, "revenue")
    IN [key_col |-> "city", key |-> city,
        visits |-> vis, conversions |-> cnv, spend |-> spd, revenue |-> rev,
        conversion_rate |-> GuardedRatio(cnv, vis, 100),
        revenue_per_visit |-> GuardedRatio(rev, vis, 1),
        roas |-> GuardedRatio(rev, spd, 1)]

CalculateByCity(d) ==
    LET keys == Unique(Column(d, "city"))
    IN [j \in 1..Len(keys) |-> CityKpi(RowsOf(d, "city", keys[j]), keys[j])]

\* sorted distinct values: the group keys of DataFrame.groupby
RECURSIVE SortedSet(_)
SortedSet(S) ==
    IF S = {} THEN <<>>
    ELSE LET m == CHOOSE x \in S : \A y \in S : x <= y
         IN <<m>> \o SortedSet(S \ {m})

\* one row of the daily_kpis frame of calculate_by_date; the group key has
\* the dtype of the date column of self.df
DailyKpi(rows, date, dtype) ==
    LET imp == SumCol(rows, "impressions")
        clk == SumCol(rows, "clicks")
        cnv == SumCol(rows, "conversions")
        spd == SumCol(rows, "spend")
        rev == SumCol(rows, "revenue")
    IN [key_col |-> "date", key |-> date, key_dtype |-> dtype,
        impressions |-> imp, clicks |-> clk, conversions |-> cnv,
        spend |-> spd, revenue |-> rev, visits |-> SumCol(rows, "visits"),
        ctr |-> DailyRatio(clk, imp, 100),
        cpc |-> DailyRatio(spd, clk, 1),
        cvr |-> DailyRatio(cnv, clk, 100),
        cpa |-> DailyRatio(spd, cnv, 1),
        roas |-> DailyRatio(rev, spd, 1)]

\* calculate_by_date: the frame, one row per date in ascending order
CalculateByDate(d) ==
    LET dates == SortedSet(Range(Column(d, "date")))
    IN [j \in 1..Len(dates) |->
          DailyKpi(RowsOf(d, "date", dates[j]), dates[j], d.date_dtype)]

DayNames == <<"Monday", "Tuesday", "Wednesday", "Thursday", "Friday", "Saturday", "Sunday">>

\* Series.dt.day_name(), day 1 being a Monday
DayName(date) == DayNames[((date - 1) % 7) + 1]

\* the kpi dict of get_day_of_week_analysis for the rows of one day
DayKpi(rows, day) ==
    LET imp == SumCol(rows, "impressions")
        clk == SumCol(rows, "clicks")
        cnv == SumCol(rows, "conversions")
        spd == SumCol(rows, "spend")
        rev == SumCol(rows, "revenue")
    IN [key_col |-> "day", key |-> day,
        impressions |-> imp, clicks |-> clk, conversions |-> cnv,
        spend |-> spd, revenue |-> rev,
        ctr |-> GuardedRatio(clk, imp, 100),
        cpa |-> GuardedRatio(spd, cnv, 1),
        roas |-> GuardedRatio(rev, spd, 1),
        avg_spend |-> GuardedRatio(spd, Len(rows), 1)]

\* get_day_of_week_analysis: Monday..Sunday, the days without rows left out
DayOfWeekAnalysis(d) ==
    LET present == SelectSeq(DayNames, LAMBDA day :
                        \E i \in 1..Len(d.rows) : DayName(d.rows[i].date) = day)
    IN [j \in 1..Len(present) |->
          DayKpi(SelectSeq(d.rows, LAMBDA r : DayName(r.date) = present[j]), present[j])]

\* self.df after get_day_of_week_analysis converted the date column with
\* pd.to_datetime and added the day_of_week column
WithDayOfWeek(d) ==
    [cols |-> d.cols \cup {"day_of_week"},
     date_dtype |-> "datetime64[ns]",
     rows |-> [i \in 1..Len(d.rows) |->
                 [c \in DOMAIN d.rows[i] \cup {"day_of_week"} |->
                    IF c = "day_of_week" THEN DayName(d.rows[i].date) ELSE d.rows[i][c]]]]

(***************************************************************************)
(* The datasets handed to the KPICalculator: up to MaxKpiRows rows, each   *)
(* with one of the counter profiles below, a campaign (which fixes its     *)
(* channel) and a date.                                                    *)
(***************************************************************************)
MaxKpiRows == 2

CounterProfiles ==
    { [impressions |-> 10, clicks |-> 2, conversions |-> 1, spend |-> 4, revenue |-> 8, visits |-> 3],
      [impressions |-> 0, clicks |-> 0, conversions |-> 0, spend |-> 0, revenue |-> 0, visits |-> 0],
      [impressions |-> 0, clicks |-> 2, conversions |-> 0, spend |-> 4, revenue |-> 0, visits |-> 0],
      [impressions |-> 10, clicks |-> 0, conversions |-> 1, spend |-> 0, revenue |-> 8, visits |-> 3] }

Campaigns == {"spring", "summer", "retarget"}

ChannelOf(campaign) == IF campaign = "retarget" THEN "social" ELSE "email"

KpiRow(profile, campaign, date) ==
    [date |-> date, channel |-> ChannelOf(campaign), campaign |-> campaign,
     city |-> IF date = 1 THEN "Pune" ELSE "Goa",
     impressions |-> profile.impressions, clicks |-> profile.clicks,
     conversions |-> profile.conversions, spend |-> profile.spend,
     revenue |-> profile.revenue, visits |-> profile.visits]

KpiRows == {KpiRow(p, c, t) : p \in CounterProfiles, c \in Campaigns, t \in {1, 2}}

KpiColumns == {"date", "channel", "campaign", "city", "impressions", "clicks",
               "conversions", "spend", "revenue", "visits"}

\* the dtype of the date column: datetime64[ns] as pipeline.py delivers it, or
\* object for dates still held as strings ("" when there is no date column)
DateDtypes == {"datetime64[ns]", "object"}

KpiRowLists(row_set) == UNION {[1..n -> row_set] : n \in 0..MaxKpiRows}

\* datasets with every column, over all counter profiles
FullDatasets ==
    {[cols |-> KpiColumns, date_dtype |-> "datetime64[ns]", rows |-> rows] :
        rows \in KpiRowLists(KpiRows)}

PlainProfile ==
    [impressions |-> 10, clicks |-> 2, conversions |-> 1, spend |-> 4, revenue |-> 8, visits |-> 3]

\* datasets of rows with non-zero counters, the date column of either dtype
PlainDatasets ==
    {[cols |-> KpiColumns, date_dtype |-> t, rows |-> rows] :
        t \in DateDtypes,
        rows \in KpiRowLists({KpiRow(PlainProfile, c, day) : c \in Campaigns, day \in {1, 2}})}

\* a dataset that lacks one column
WithoutColumn(d, col) ==
    [cols |-> d.cols \ {col},
     date_dtype |-> IF col = "date" THEN "" ELSE d.date_dtype,
     rows |-> [i \in 1..Len(d.rows) |->
                 [c \in (DOMAIN d.rows[i]) \ {col} |-> d.rows[i][c]]]]

KpiDatasets ==
    FullDatasets \cup PlainDatasets
        \cup {WithoutColumn(d, col) : d \in PlainDatasets, col \in KpiColumns}

\* KPICalculator.__init__
InitKPI ==
    /\ analyzer = "KPICalculator"
    /\ df \in KpiDatasets
    /\ combined_df = df
    /\ kpis = <<>>
    /\ aggregations = <<>>
    /\ pc = "calculate_basic_kpis"
    /\ op = NoCall
    /\ returned = <<>>
    /\ NoAnomalyDetector /\ NoBenchmarkAnalyzer /\ NoWeatherAnalyzer
    /\ NoRequest

\* self.df = combined_df.copy(): what the caller's frame holds once the
\* analyzer has written `written` to self.df
CallerSeesAlias(caller, written) == written
CallerSees(caller, written) == caller

\* get_top_performers('roas', 5) and get_worst_performers('roas', 5)
TopCampaigns == 5

\* self.aggregations after the `if 'by_campaign' not in self.aggregations:
\* self.calculate_by_campaign()` of get_top_performers / get_worst_performers
WithByCampaign(d, aggs) ==
    IF "by_campaign" \notin DOMAIN aggs /\ "campaign" \in d.cols
    THEN ("by_campaign" :> CalculateByGroup(d, "campaign")) @@ aggs
    ELSE aggs

\* self.aggregations.get(key, {})
AggregationOr(aggs, key) == IF key \in DOMAIN aggs THEN aggs[key] ELSE <<>>

\* generate_kpi_summary, once self.aggregations['by_campaign'] exists
GenerateKpiSummary(ks, aggs) ==
    [overall |-> IF "overall" \in DOMAIN ks THEN ks["overall"] ELSE <<>>,
     by_channel |-> AggregationOr(aggs, "by_channel"),
     by_campaign |-> AggregationOr(aggs, "by_campaign"),
     by_city |-> AggregationOr(aggs, "by_city"),
     by_day_of_week |-> AggregationOr(aggs, "by_day_of_week"),
     top_campaigns |-> GetTopPerformers(aggs["by_campaign"], "roas", TopCampaigns),
     worst_campaigns |-> GetWorstPerformers(aggs["by_campaign"], "roas", TopCampaigns),
     daily_trend |-> AggregationOr(aggs, "by_date")]

\* calculate_all runs the steps below in this order, each to its end before
\* the next starts; a step that raises ends calculate_all.  A caller may run
\* calculate_all again once it returned.
CalculateBasicKpisStep ==
    /\ pc \in {"calculate_basic_kpis", "done"}
    /\ IF RequiredCounters \subseteq df.cols
       THEN /\ op' = [name |-> "calculate_basic_kpis", args |-> <<>>]
            /\ kpis' = ("overall" :> CalculateBasicKpis(df)) @@ kpis
            /\ pc' = "calculate_by_channel"
            /\ returned' = kpis'["overall"]
       ELSE /\ op' = Raising("calculate_basic_kpis", <<>>, "KeyError")
            /\ returned' = <<>>
            /\ pc' = "raised"
            /\ UNCHANGED kpis
    /\ UNCHANGED <<df, combined_df, aggregations, notKPI>>

CalculateByChannelStep ==
    /\ pc = "calculate_by_channel"
    /\ pc' = "calculate_by_campaign"
    /\ op' = [name |-> "calculate_by_channel", args |-> <<>>]
    /\ IF "channel" \notin df.cols
       THEN returned' = <<>> /\ UNCHANGED aggregations
       ELSE /\ returned' = CalculateByGroup(df, "channel")
            /\ aggregations' = ("by_channel" :> returned') @@ aggregations
    /\ UNCHANGED <<df, combined_df, kpis, notKPI>>

CalculateByCampaignStep ==
    /\ pc = "calculate_by_campaign"
    /\ pc' = "calculate_by_date"
    /\ op' = [name |-> "calculate_by_campaign", args |-> <<>>]
    /\ IF "campaign" \notin df.cols
       THEN returned' = <<>> /\ UNCHANGED aggregations
       ELSE /\ returned' = CalculateByGroup(df, "campaign")
            /\ aggregations' = ("by_campaign" :> returned') @@ aggregations
    /\ UNCHANGED <<df, combined_df, kpis, notKPI>>

\* the agg dict of calculate_by_date names 'visits' whether or not the column
\* exists; DataFrameGroupBy.agg raises KeyError for a column that does not
CalculateByDateStep ==
    /\ pc = "calculate_by_date"
    /\ op' = IF "date" \in df.cols /\ "visits" \notin df.cols
             THEN Raising("calculate_by_date", <<>>, "KeyError")
             ELSE [name |-> "calculate_by_date", args |-> <<>>]
    /\ IF "date" \notin df.cols
       THEN returned' = <<>> /\ pc' = "calculate_by_city" /\ UNCHANGED aggregations
       ELSE IF "visits" \notin df.cols
       THEN returned' = <<>> /\ pc' = "raised" /\ UNCHANGED aggregations
       ELSE /\ returned' = CalculateByDate(df)
            /\ pc' = "calculate_by_city"
            /\ aggregations' = ("by_date" :> returned') @@ aggregations
    /\ UNCHANGED <<df, combined_df, kpis, notKPI>>

CalculateByCityStep ==
    /\ pc = "calculate_by_city"
    /\ pc' = "get_day_of_week_analysis"
    /\ op' = [name |-> "calculate_by_city", args |-> <<>>]
    /\ IF "city" \notin df.cols
       THEN returned' = <<>> /\ UNCHANGED aggregations
       ELSE /\ returned' = CalculateByCity(df)
            /\ aggregations' = ("by_city" :> returned') @@ aggregations
    /\ UNCHANGED <<df, combined_df, kpis, notKPI>>

GetDayOfWeekAnalysisStep ==
    /\ pc = "get_day_of_week_analysis"
    /\ pc' = "generate_kpi_summary"
    /\ op' = [name |-> "get_day_of_week_analysis", args |-> <<>>]
    /\ IF "date" \notin df.cols
       THEN returned' = <<>> /\ UNCHANGED <<df, combined_df, aggregations>>
       ELSE /\ df' = WithDayOfWeek(df)
            /\ combined_df' = CallerSees(combined_df, df')
            /\ returned' = DayOfWeekAnalysis(df)
            /\ aggregations' = ("by_day_of_week" :> returned') @@ aggregations
    /\ UNCHANGED <<kpis, notKPI>>

\* generate_kpi_summary: self.aggregations['by_campaign'] raises KeyError when
\* calculate_by_campaign returned {} without storing anything
GenerateKpiSummaryStep ==
    /\ pc = "generate_kpi_summary"
    /\ aggregations' = WithByCampaign(df, aggregations)
    /\ IF "by_campaign" \notin DOMAIN aggregations'
       THEN /\ op' = Raising("generate_kpi_summary", <<>>, "KeyError")
            /\ returned' = <<>>
            /\ pc' = "raised"
       ELSE /\ op' = [name |-> "generate_kpi_summary", args |-> <<>>]
            /\ returned' = GenerateKpiSummary(kpis, aggregations')
            /\ pc' = "done"
    /\ UNCHANGED <<df, combined_df, kpis, notKPI>>

\* calculate_by_campaign reads the counter columns of every group of rows
ByCampaignRaises(d) ==
    "campaign" \in d.cols /\ d.rows # <<>> /\ ~(RequiredCounters \subseteq d.cols)

\* the metrics a caller ranks campaigns by: a return metric and a cost metric
PerformerMetrics == {"roas", "cpa"}

\* get_top_performers(metric, n), called while calculate_all is not running
GetTopPerformersCall ==
    \E metric \in PerformerMetrics, n \in {1, TopCampaigns} :
        /\ pc \in {"calculate_basic_kpis", "done", "raised"}
        /\ IF "by_campaign" \notin DOMAIN aggregations /\ ByCampaignRaises(df)
           THEN /\ op' = Raising("get_top_performers", <<metric, n>>, "KeyError")
                /\ returned' = <<>>
                /\ UNCHANGED aggregations
           ELSE /\ aggregations' = WithByCampaign(df, aggregations)
                /\ IF "by_campaign" \notin DOMAIN aggregations'
                   THEN /\ op' = Raising("get_top_performers", <<metric, n>>, "KeyError")
                        /\ returned' = <<>>
                   ELSE /\ op' = [name |-> "get_top_performers", args |-> <<metric, n>>]
                        /\ returned' = GetTopPerformers(aggregations'["by_campaign"], metric, n)
        /\ UNCHANGED <<df, combined_df, kpis, pc, notKPI>>

\* get_worst_performers(metric, n)
GetWorstPerformersCall ==
    \E metric \in PerformerMetrics, n \in {1, TopCampaigns} :
        /\ pc \in {"calculate_basic_kpis", "done", "raised"}
        /\ IF "by_campaign" \notin DOMAIN aggregations /\ ByCampaignRaises(df)
           THEN /\ op' = Raising("get_worst_performers", <<metric, n>>, "KeyError")
                /\ returned' = <<>>
                /\ UNCHANGED aggregations
           ELSE /\ aggregations' = WithByCampaign(df, aggregations)
                /\ IF "by_campaign" \notin DOMAIN aggregations'
                   THEN /\ op' = Raising("get_worst_performers", <<metric, n>>, "KeyError")
                        /\ returned' = <<>>
                   ELSE /\ op' = [name |-> "get_worst_performers", args |-> <<metric, n>>]
                        /\ returned' = GetWorstPerformers(aggregations'["by_campaign"], metric, n)
        /\ UNCHANGED <<df, combined_df, kpis, pc, notKPI>>

NextKPI ==
    \/ CalculateBasicKpisStep
    \/ CalculateByChannelStep
    \/ CalculateByCampaignStep
    \/ CalculateByDateStep
    \/ CalculateByCityStep
    \/ GetDayOfWeekAnalysisStep
    \/ GenerateKpiSummaryStep
    \/ GetTopPerformersCall
    \/ GetWorstPerformersCall

SpecKPI == InitKPI /\ [][NextKPI]_vars

(***************************************************************************)
(* Claims about the KPICalculator.                                         *)
(***************************************************************************)
\* the sum each derived ratio is divided by
DenominatorOf == [ctr |-> "impressions", cpc |-> "clicks", cvr |-> "clicks",
                  cpa |-> "conversions", roas |-> "spend"]

\* in one KPI record, every derived ratio whose denominator sum is 0 is 0
ZeroDenominatorGivesZero(rec) ==
    \A ratio \in DOMAIN DenominatorOf \cap DOMAIN rec :
        LET den == DenominatorOf[ratio]
        IN (den \in DOMAIN rec /\ rec[den] = 0) => rec[ratio] = FZero

\* the overall record names its sums total_<counter>
OverallZeroDenominatorGivesZero(rec) ==
    \A ratio \in DOMAIN DenominatorOf :
        rec["total_" \o DenominatorOf[ratio]] = 0 => rec[ratio] = FZero

\* C1 as stated: at every granularity the KPI Aggregator produces, each of
\* ctr, cpc, cvr, cpa, roas whose denominator sum is 0 equals exactly 0,
\* whatever the numerator; it is never NaN or infinite.
C1_ZeroDenominatorRatioIsZero ==
    /\ "overall" \in DOMAIN kpis => OverallZeroDenominatorGivesZero(kpis["overall"])
    /\ \A g \in DOMAIN aggregations :
          \A j \in 1..Len(aggregations[g]) : ZeroDenominatorGivesZero(aggregations[g][j])

\* the same, for the granularities other than per-calendar-date
C1_HoldsExceptByDate ==
    /\ "overall" \in DOMAIN kpis => OverallZeroDenominatorGivesZero(kpis["overall"])
    /\ \A g \in DOMAIN aggregations \ {"by_date"} :
          \A j \in 1..Len(aggregations[g]) : ZeroDenominatorGivesZero(aggregations[g][j])

(***************************************************************************)
(* BenchmarkAnalyzer.  KPI and benchmark values are whole numbers of one   *)
(* common unit (hundredths, say): status, performance, pct_difference and  *)
(* tier depend only on their ratio and on the sign of their difference.    *)
(***************************************************************************)
\* kpi_bench_map, in its order
KpiBenchMap == << [kpi |-> "ctr", bench |-> "avg_ctr"],
                  [kpi |-> "cpc", bench |-> "avg_cpc"],
                  [kpi |-> "cvr", bench |-> "avg_conversion_rate"],
                  [kpi |-> "cpa", bench |-> "avg_cpa"],
                  [kpi |-> "roas", bench |-> "avg_roas"] >>

\* `kpi_name in ['cpc', 'cpa']`
CostMetrics == {"cpc", "cpa"}

\* (difference / benchmark_value * 100) if benchmark_value != 0 else 0
PctDifference(client_value, benchmark_value) ==
    IF benchmark_value # 0
    THEN Frac(100 * (client_value - benchmark_value), benchmark_value)
    ELSE FZero

\* comparisons of a float with a whole number
FGreater(f, n) == f.num > n * f.den
FLess(f, n) == f.num < n * f.den
FAbsLess(f, n) == Abs(f.num) < n * f.den

\* 'above' if difference > 0 else 'below'   (the same in both branches)
Status(kpi_name, difference) == IF difference > 0 THEN "above" ELSE "below"

\* performance without the inversion for cost metrics
PerformanceNotInverted(kpi_name, difference) ==
    IF difference > 0 THEN "better" ELSE "worse"

\* performance: lower is better for cost metrics
Performance(kpi_name, difference) ==
    IF kpi_name \in CostMetrics
    THEN (IF difference > 0 THEN "worse" ELSE "better")
    ELSE (IF difference > 0 THEN "better" ELSE "worse")

\* the overall ladder with `>=` at the top_20 rung
TierOverallInclusive(pct) ==
    IF FAbsLess(pct, 5) THEN "in_line"
    ELSE IF ~FLess(pct, 20) THEN "top_20"
    ELSE IF FGreater(pct, 10) THEN "top_40"
    ELSE IF FLess(pct, -20) THEN "bottom_20"
    ELSE IF FLess(pct, -10) THEN "bottom_40"
    ELSE "average"

\* the tier ladder of compare_overall_metrics
TierOverall(pct) ==
    IF FAbsLess(pct, 5) THEN "in_line"
    ELSE IF FGreater(pct, 20) THEN "top_20"
    ELSE IF FGreater(pct, 10) THEN "top_40"
    ELSE IF FLess(pct, -20) THEN "bottom_20"
    ELSE IF FLess(pct, -10) THEN "bottom_40"
    ELSE "average"

\* the channel ladder with the thresholds of the overall one
TierChannelAsOverall(pct) == TierOverall(pct)

\* the tier ladder of compare_by_channel
TierChannel(pct) ==
    IF FAbsLess(pct, 5) THEN "in_line"
    ELSE IF FGreater(pct, 15) THEN "top_20"
    ELSE IF FGreater(pct, 5) THEN "top_40"
    ELSE IF FLess(pct, -15) THEN "bottom_20"
    ELSE IF FLess(pct, -5) THEN "bottom_40"
    ELSE "average"

\* the entries of kpi_bench_map present on both sides
\* (`client_value is not None and benchmark_value is not None`)
Comparable(client_kpis, bench) ==
    SelectSeq(KpiBenchMap, LAMBDA e : e.kpi \in DOMAIN client_kpis /\ e.bench \in DOMAIN bench)

\* one entry of the comparison dict of compare_overall_metrics
OverallComparison(kpi_name, client_value, benchmark_value) ==
    [kpi_name |-> kpi_name,
     client_value |-> client_value,
     benchmark_value |-> benchmark_value,
     difference |-> client_value - benchmark_value,
     pct_difference |-> PctDifference(client_value, benchmark_value),
     status |-> Status(kpi_name, client_value - benchmark_value),
     performance |-> Performance(kpi_name, client_value - benchmark_value),
     tier |-> TierOverall(PctDifference(client_value, benchmark_value))]

\* the .get(key, {}) of a dict
GetOr(dict, key, default) == IF key \in DOMAIN dict THEN dict[key] ELSE default

\* compare_overall_metrics, past its guard: the comparison dict, as the
\* sequence of its values in insertion order
CompareOverallMetrics(summary, table) ==
    LET overall_kpis == GetOr(summary, "overall", <<>>)
        overall_bench == table["overall"]
        es == Comparable(overall_kpis, overall_bench)
    IN [j \in 1..Len(es) |->
          OverallComparison(es[j].kpi, overall_kpis[es[j].kpi], overall_bench[es[j].bench])]

\* one entry of a channel_comparison dict of compare_by_channel
ChannelComparison(kpi_name, client_value, benchmark_value) ==
    [kpi_name |-> kpi_name,
     client_value |-> client_value,
     benchmark_value |-> benchmark_value,
     pct_difference |-> PctDifference(client_value, benchmark_value),
     tier |-> TierChannel(PctDifference(client_value, benchmark_value))]

\* the 'overall' entry whenever there is one
ChannelBenchOverallFirst(table, channel) ==
    IF "overall" \in DOMAIN table THEN table["overall"] ELSE GetOr(table, channel, <<>>)

\* the benchmark entry a channel is compared against: its own, or, when
\* that is missing or empty, the 'overall' one, or {}
ChannelBench(table, channel) ==
    LET own == GetOr(table, channel, <<>>)
    IN IF own # <<>> THEN own ELSE GetOr(table, "overall", <<>>)

\* compare_by_channel, past its guard: one item per client channel
CompareByChannel(summary, table) ==
    LET client_channels == summary["by_channel"]
    IN [c \in 1..Len(client_channels) |->
          LET client_kpi == client_channels[c]
              channel_bench == ChannelBench(table, client_kpi.key)
              es == Comparable(client_kpi, channel_bench)
          IN [channel |-> client_kpi.key,
              comparison |-> [j \in 1..Len(es) |->
                  ChannelComparison(es[j].kpi, client_kpi[es[j].kpi],
                                    channel_bench[es[j].bench])]]]

(***************************************************************************)
(* The inputs of the BenchmarkAnalyzer.  The client's five KPIs are        *)
(* base + offset, for a base and one of the offset patterns below; the     *)
(* KPIs of channel "email" are those of the whole account, those of        *)
(* "social" are one unit lower.  A benchmark entry gives all five          *)
(* benchmarks the same value; the table has an 'overall' entry, an         *)
(* "email" entry, both or none.                                            *)
(***************************************************************************)
MaxBase == 32

\* KPI values are not negative: the bases start at the largest decrement
BaseValues == 4..MaxBase

KpiNames == {"ctr", "cpc", "cvr", "cpa", "roas"}

OffsetPatterns ==
    { [ctr |-> 0, cpc |-> 0, cvr |-> 0, cpa |-> 0, roas |-> 0],
      [ctr |-> 0, cpc |-> 1, cvr |-> 2, cpa |-> 3, roas |-> 4],
      [ctr |-> 4, cpc |-> -4, cvr |-> 2, cpa |-> -2, roas |-> 0],
      [ctr |-> -3, cpc |-> 3, cvr |-> -1, cpa |-> 1, roas |-> -2] }

BenchValues == {0, 20, 25}

ClientKpis(base, offsets, shift) == [m \in KpiNames |-> base + offsets[m] + shift]

ChannelKpis(channel, base, offsets, shift) ==
    [m \in KpiNames \cup {"key"} |->
        IF m = "key" THEN channel ELSE base + offsets[m] + shift]

KpiSummaries ==
    UNION { { [overall |-> ClientKpis(b, o, 0)],
              [overall |-> ClientKpis(b, o, 0),
               by_channel |-> <<ChannelKpis("email", b, o, 0)>>],
              [overall |-> ClientKpis(b, o, 0),
               by_channel |-> <<ChannelKpis("email", b, o, 0),
                                ChannelKpis("social", b, o, -1)>>] } :
            b \in BaseValues, o \in OffsetPatterns }

BenchEntry(v) ==
    [avg_ctr |-> v, avg_cpc |-> v, avg_conversion_rate |-> v, avg_cpa |-> v, avg_roas |-> v]

BenchmarkTables ==
    {<<>>}
    \cup {[overall |-> BenchEntry(v)] : v \in BenchValues}
    \cup {[email |-> BenchEntry(v)] : v \in BenchValues}
    \cup {[overall |-> BenchEntry(v), email |-> BenchEntry(w)] : v \in BenchValues, w \in BenchValues}
    \cup {[email |-> <<>>], [overall |-> BenchEntry(20), email |-> <<>>]}

\* BenchmarkAnalyzer.__init__
InitBench ==
    /\ analyzer = "BenchmarkAnalyzer"
    /\ kpi_summary \in KpiSummaries
    /\ benchmarks \in BenchmarkTables
    /\ comparisons = <<>>
    /\ bench_insights = <<>>
    /\ bench_recommendations = <<>>
    /\ op = NoCall
    /\ returned = <<>>
    /\ df = [cols |-> {}, rows |-> <<>>]
    /\ combined_df = df
    /\ NoAnomalyDetector /\ NoKPICalculator /\ NoWeatherAnalyzer
    /\ NoRequest

\* a value of the benchmark file that is not a JSON object: an array where
\* the table should be, a number where a channel's entry should be
NotAMapping(kind) == [not_a_mapping |-> kind]

IsMapping(value) == "not_a_mapping" \notin DOMAIN value

\* compare_overall_metrics returns {} at its guard ('overall' is in no array)
NoOverallBenchmarks(table) ==
    table = <<>> \/ ~IsMapping(table) \/ "overall" \notin DOMAIN table

\* overall_bench.get(bench_name) on an entry that is not a dict
CompareOverallRaises(table) ==
    ~NoOverallBenchmarks(table) /\ ~IsMapping(table["overall"])

\* compare_by_channel returns {} at its guard
NoChannelComparison(summary, table) ==
    "by_channel" \notin DOMAIN summary \/ table = <<>>

\* self.benchmarks.get(channel, {}) on a table that is not a dict, or
\* channel_bench.get(bench_name) on an entry that is not one
CompareByChannelRaises(summary, table) ==
    /\ ~NoChannelComparison(summary, table)
    /\ summary["by_channel"] # <<>>
    /\ \/ ~IsMapping(table)
       \/ \E c \in 1..Len(summary["by_channel"]) :
              ~IsMapping(ChannelBench(table, summary["by_channel"][c].key))

\* self.comparisons after compare_overall_metrics / compare_by_channel
AfterCompareOverall(summary, table, comps) ==
    IF NoOverallBenchmarks(table) \/ CompareOverallRaises(table) THEN comps
    ELSE ("overall" :> CompareOverallMetrics(summary, table)) @@ comps

AfterCompareByChannel(summary, table, comps) ==
    IF NoChannelComparison(summary, table) \/ CompareByChannelRaises(summary, table)
    THEN comps
    ELSE ("by_channel" :> CompareByChannel(summary, table)) @@ comps

\* compare_overall_metrics
CompareOverallMetricsCall ==
    /\ op' = IF CompareOverallRaises(benchmarks)
             THEN Raising("compare_overall_metrics", <<>>, "AttributeError")
             ELSE [name |-> "compare_overall_metrics", args |-> <<>>]
    /\ comparisons' = AfterCompareOverall(kpi_summary, benchmarks, comparisons)
    /\ returned' = IF NoOverallBenchmarks(benchmarks) \/ CompareOverallRaises(benchmarks)
                   THEN <<>>
                   ELSE comparisons'["overall"]
    /\ UNCHANGED <<kpi_summary, benchmarks, bench_insights, bench_recommendations, notBench>>

\* compare_by_channel
CompareByChannelCall ==
    /\ op' = IF CompareByChannelRaises(kpi_summary, benchmarks)
             THEN Raising("compare_by_channel", <<>>, "AttributeError")
             ELSE [name |-> "compare_by_channel", args |-> <<>>]
    /\ comparisons' = AfterCompareByChannel(kpi_summary, benchmarks, comparisons)
    /\ returned' = IF NoChannelComparison(kpi_summary, benchmarks)
                      \/ CompareByChannelRaises(kpi_summary, benchmarks)
                   THEN <<>>
                   ELSE comparisons'["by_channel"]
    /\ UNCHANGED <<kpi_summary, benchmarks, bench_insights, bench_recommendations, notBench>>

NextBench == CompareOverallMetricsCall \/ CompareByChannelCall

SpecBench == InitBench /\ [][NextBench]_vars

(***************************************************************************)
(* The rules that turn recorded anomalies and benchmark comparisons into   *)
(* strengths, weaknesses, insights and recommendations.  The texts of the  *)
(* insights and recommendations are left out; the values they are          *)
(* formatted from are kept.                                                *)
(***************************************************************************)
\* get_critical_anomalies
GetCriticalAnomalies(list) == SelectSeq(list, LAMBDA a : a.severity = "critical")

\* the keys of by_metric whose list has 2 items or more
RecurringMetricsFromTwo(list) ==
    SelectSeq(Unique([j \in 1..Len(list) |-> list[j].metric]),
              LAMBDA m : Len(SelectSeq(list, LAMBDA a : a.metric = m)) >= 2)

\* the keys of by_metric, in insertion order, whose list has more than 2 items
RecurringMetrics(list) ==
    SelectSeq(Unique([j \in 1..Len(list) |-> list[j].metric]),
              LAMBDA m : Len(SelectSeq(list, LAMBDA a : a.metric = m)) > 2)

\* critical[:3] and weaknesses[:3]
TopFour(list) == FirstN(list, 4)
TopThree(list) == FirstN(list, 3)

\* the recommendation for one of the first critical anomalies
SpikeOrDrop(anomaly) ==
    IF anomaly.pct_change.k = "num" /\ anomaly.pct_change.num > 0
    THEN [type |-> "spike_investigation", priority |-> "high", detail |-> anomaly]
    ELSE [type |-> "drop_investigation", priority |-> "critical", detail |-> anomaly]

\* generate_anomaly_recommendations
GenerateAnomalyRecommendations(list) ==
    LET critical == GetCriticalAnomalies(list)
        recurring == RecurringMetrics(list)
        first == TopThree(critical)
    IN (IF critical # <<>>
        THEN <<[type |-> "urgent_investigation", priority |-> "critical",
                count |-> Len(critical)]>>
        ELSE <<>>)
       \o [j \in 1..Len(recurring) |->
             [type |-> "recurring_anomaly_" \o recurring[j], priority |-> "high",
              metric |-> recurring[j],
              count |-> Len(SelectSeq(list, LAMBDA a : a.metric = recurring[j]))]]
       \o [j \in 1..Len(first) |-> SpikeOrDrop(first[j])]

\* the defaults of min_pct_above and max_pct_below
MinPctAbove == 10
MaxPctBelow == -10

\* a < b for two floats
PctLess(a, b) == a.num * b.den < b.num * a.den

\* abs(pct_difference)
FAbs(f) == [f EXCEPT !.num = Abs(f.num)]

\* np.mean([abs(a.get('pct_change', 0)) for a in anomaly_list])
RECURSIVE SumAbsPctChange(_)
SumAbsPctChange(list) ==
    IF list = <<>> THEN FZero
    ELSE LET h == FAbs(Head(list).pct_change)
             r == SumAbsPctChange(Tail(list))
         IN Frac(h.num * r.den + r.num * h.den, h.den * r.den)

MeanAbsPctChange(list) ==
    LET total == SumAbsPctChange(list)
    IN Frac(total.num, total.den * Len(list))

\* `if warnings:`, and the same test made of the critical anomalies
HasWarningsAsCritical(list) == GetCriticalAnomalies(list) # <<>>
HasWarnings(list) == SelectSeq(list, LAMBDA a : a.severity = "warning") # <<>>

\* generate_anomaly_insights
GenerateAnomalyInsights(list) ==
    LET critical == GetCriticalAnomalies(list)
        warnings == SelectSeq(list, LAMBDA a : a.severity = "warning")
        metrics_affected == Unique([j \in 1..Len(list) |-> list[j].metric])
        of(m) == SelectSeq(list, LAMBDA a : a.metric = m)
    IN (IF critical # <<>>
        THEN <<[type |-> "critical_anomalies", count |-> Len(critical)],
               [type |-> "top_critical_detail", detail |-> SortByZDesc(critical)[1]]>>
        ELSE <<>>)
       \o (IF HasWarnings(list)
           THEN <<[type |-> "warning_anomalies", count |-> Len(warnings)]>>
           ELSE <<>>)
       \o [j \in 1..Len(metrics_affected) |->
             [type |-> "metric_" \o metrics_affected[j], metric |-> metrics_affected[j],
              count |-> Len(of(metrics_affected[j])),
              avg_deviation |-> MeanAbsPctChange(of(metrics_affected[j]))]]

\* list.sort(key=lambda x: x[key], reverse=True): stable, descending
RECURSIVE SortDescending(_, _)
SortDescending(list, key) ==
    IF list = <<>> THEN <<>>
    ELSE LET rest == SortDescending(Tail(list), key)
             k == Cardinality({j \in 1..Len(rest) : PctLess(Head(list)[key], rest[j][key])})
         IN SubSeq(rest, 1, k) \o <<Head(list)>> \o SubSeq(rest, k + 1, Len(rest))

\* data['pct_difference'] > min_pct_above, and the same with >=
IsStrengthInclusive(pct, min_pct_above) == ~FLess(pct, min_pct_above)
IsStrength(pct, min_pct_above) == FGreater(pct, min_pct_above)

\* data['pct_difference'] < max_pct_below
IsWeakness(pct, max_pct_below) == FLess(pct, max_pct_below)

\* get_strengths
GetStrengths(comps, min_pct_above) ==
    LET strong == SelectSeq(GetOr(comps, "overall", <<>>),
                            LAMBDA data : IsStrength(data.pct_difference, min_pct_above))
    IN SortDescending([j \in 1..Len(strong) |->
                          [metric |-> strong[j].kpi_name,
                           client_value |-> strong[j].client_value,
                           benchmark_value |-> strong[j].benchmark_value,
                           pct_above |-> strong[j].pct_difference,
                           tier |-> strong[j].tier]], "pct_above")

\* get_weaknesses
GetWeaknesses(comps, max_pct_below) ==
    LET weak == SelectSeq(GetOr(comps, "overall", <<>>),
                          LAMBDA data : IsWeakness(data.pct_difference, max_pct_below))
    IN SortDescending([j \in 1..Len(weak) |->
                          [metric |-> weak[j].kpi_name,
                           client_value |-> weak[j].client_value,
                           benchmark_value |-> weak[j].benchmark_value,
                           pct_below |-> FAbs(weak[j].pct_difference),
                           tier |-> weak[j].tier]], "pct_below")

\* generate_benchmark_insights
GenerateBenchmarkInsights(comps) ==
    LET overall == GetOr(comps, "overall", <<>>)
        top_20 == Len(SelectSeq(overall, LAMBDA m : m.tier = "top_20"))
        bottom_20 == Len(SelectSeq(overall, LAMBDA m : m.tier = "bottom_20"))
        strengths == FirstN(GetStrengths(comps, MinPctAbove), 2)
        weaknesses == FirstN(GetWeaknesses(comps, MaxPctBelow), 2)
    IN (IF top_20 > 0
        THEN <<[type |-> "strong_performance", count |-> top_20]>> ELSE <<>>)
       \o (IF bottom_20 > 0
           THEN <<[type |-> "weak_performance", count |-> bottom_20]>> ELSE <<>>)
       \o (IF strengths # <<>>
           THEN <<[type |-> "key_strengths",
                   metrics |-> [j \in 1..Len(strengths) |-> strengths[j].metric]]>>
           ELSE <<>>)
       \o (IF weaknesses # <<>>
           THEN <<[type |-> "key_weaknesses",
                   metrics |-> [j \in 1..Len(weaknesses) |-> weaknesses[j].metric]]>>
           ELSE <<>>)

\* the recommendation type of the if / elif chain; any other metric: continue
RemedyOf == [ctr |-> "improve_ctr", cpc |-> "reduce_cpc", cvr |-> "improve_cvr",
             roas |-> "improve_roas"]

\* what the text of each recommendation says of the client's value: "CTR is
\* {gap}% below benchmark", "CPC is {gap}% above benchmark", ...
RemedyTextSays == [ctr |-> "below", cpc |-> "above", cvr |-> "below", roas |-> "below"]

\* generate_benchmark_recommendations
GenerateBenchmarkRecommendations(comps) ==
    LET strengths == GetStrengths(comps, MinPctAbove)
        remedied == SelectSeq(TopThree(GetWeaknesses(comps, MaxPctBelow)),
                              LAMBDA w : w.metric \in DOMAIN RemedyOf)
    IN [j \in 1..Len(remedied) |->
          [type |-> RemedyOf[remedied[j].metric], priority |-> "high",
           metric |-> remedied[j].metric, gap |-> remedied[j].pct_below,
           text_says |-> RemedyTextSays[remedied[j].metric]]]
       \o (IF strengths # <<>>
           THEN <<[type |-> "scale_success", priority |-> "medium",
                   strong_metric |-> strengths[1].metric,
                   strong_pct |-> strengths[1].pct_above]>>
           ELSE <<>>)

\* BenchmarkAnalyzer.get_summary
GetBenchSummary(comps, ins, recs, table) ==
    [overall_comparison |-> GetOr(comps, "overall", <<>>),
     by_channel_comparison |-> GetOr(comps, "by_channel", <<>>),
     strengths |-> GetStrengths(comps, MinPctAbove),
     weaknesses |-> GetWeaknesses(comps, MaxPctBelow),
     insights |-> ins,
     recommendations |-> recs,
     benchmarks_loaded |-> table # <<>>]

(***************************************************************************)
(* An AnomalyDetector after a sweep: self.anomalies holds up to            *)
(* MaxAnomalies flags, each of one of the kinds below (a metric, a         *)
(* Z-score in tenths, the sign of the deviation), dated by its position.   *)
(***************************************************************************)
MaxAnomalies == 5

AnomalyKinds ==
    { <<"impressions", 35, 1>>, <<"impressions", 32, -1>>, <<"clicks", 31, 1>>,
      <<"clicks", 40, -1>>, <<"clicks", 27, -1>>, <<"impressions", 22, 1>> }

RecordedAnomaly(kind, day) ==
    [date |-> day, metric |-> kind[1], value |-> 100 + 50 * kind[3],
     z_score |-> ZOfTenths(kind[2]), severity |-> CalculateSeverity(ZOfTenths(kind[2])),
     pct_change |-> Frac(50 * kind[3], 1), baseline_mean |-> Frac(100, 1)]

\* the flags of `kinds`, a sequence of anomaly kinds
RecordedAnomalies(kinds) == [j \in 1..Len(kinds) |-> RecordedAnomaly(kinds[j], j)]

InitAnomalyRules ==
    /\ analyzer = "AnomalyDetector"
    /\ df = [cols |-> {}, rows |-> <<>>]
    /\ combined_df = df
    /\ z_score_threshold = DefaultThreshold
    /\ \E n \in 0..MaxAnomalies : \E kinds \in [1..n -> AnomalyKinds] :
          anomalies = RecordedAnomalies(kinds)
    /\ op = NoCall
    /\ returned = <<>>
    /\ NoKPICalculator /\ NoBenchmarkAnalyzer /\ NoWeatherAnalyzer
    /\ NoRequest

GetCriticalAnomaliesCall ==
    /\ op' = [name |-> "get_critical_anomalies", args |-> <<>>]
    /\ returned' = GetCriticalAnomalies(anomalies)
    /\ UNCHANGED <<df, z_score_threshold, anomalies, notAnomaly>>

GenerateAnomalyRecommendationsCall ==
    /\ op' = [name |-> "generate_anomaly_recommendations", args |-> <<>>]
    /\ returned' = GenerateAnomalyRecommendations(anomalies)
    /\ UNCHANGED <<df, z_score_threshold, anomalies, notAnomaly>>

\* AnomalyDetector.get_summary
GetAnomalySummary(list) ==
    [total_anomalies |-> Len(list),
     critical |-> Len(GetCriticalAnomalies(list)),
     warning |-> Len(SelectSeq(list, LAMBDA a : a.severity = "warning")),
     info |-> Len(SelectSeq(list, LAMBDA a : a.severity = "info")),
     anomalies |-> list,
     top_anomalies |-> GetTopAnomalies(list, TopDefault, ""),
     insights |-> GenerateAnomalyInsights(list),
     recommendations |-> GenerateAnomalyRecommendations(list)]

GetSummaryCall ==
    /\ op' = [name |-> "get_summary", args |-> <<>>]
    /\ returned' = GetAnomalySummary(anomalies)
    /\ UNCHANGED <<df, z_score_threshold, anomalies, notAnomaly>>

\* AnomalyDetector.analyze_all(metrics_to_check)
AnomalyAnalyzeAllCall ==
    \E metrics \in MetricLists :
        /\ op' = [name |-> "analyze_all", args |-> <<metrics>>]
        /\ anomalies' = StoredAnomalies(anomalies, DetectAll(df, metrics, z_score_threshold))
        /\ returned' = GetAnomalySummary(anomalies')
        /\ UNCHANGED <<df, z_score_threshold, notAnomaly>>

\* the detection calls of an AnomalyDetector over a dataset, with its
\* summary asked for between them
NextAnomalySummary ==
    \/ DetectAnomaliesByMetricCall
    \/ DetectRecentAnomaliesCall
    \/ DetectAllAnomaliesCall
    \/ GetSummaryCall
    \/ AnomalyAnalyzeAllCall

SpecAnomalySummary == InitAnomaly /\ [][NextAnomalySummary]_vars

GenerateAnomalyInsightsCall ==
    /\ op' = [name |-> "generate_anomaly_insights", args |-> <<>>]
    /\ returned' = GenerateAnomalyInsights(anomalies)
    /\ UNCHANGED <<df, z_score_threshold, anomalies, notAnomaly>>

NextAnomalyRules ==
    \/ GetCriticalAnomaliesCall
    \/ GenerateAnomalyRecommendationsCall
    \/ GenerateAnomalyInsightsCall

(***************************************************************************)
(* A BenchmarkAnalyzer over a KPI summary and a benchmark table that may   *)
(* be malformed: the five KPIs are base + offset; the table is as above,   *)
(* or an array, or has a number for an entry.                              *)
(***************************************************************************)
RulesBases == {4, 18, 20, 22, 30}

RulesOffsets ==
    OffsetPatterns \cup {[ctr |-> 0, cpc |-> 1, cvr |-> 2, cpa |-> 4, roas |-> 3]}

RulesSummaries ==
    UNION { { [overall |-> ClientKpis(b, o, 0)],
              [overall |-> ClientKpis(b, o, 0),
               by_channel |-> <<ChannelKpis("email", b, o, 0),
                                ChannelKpis("social", b, o, -1)>>] } :
            b \in RulesBases, o \in RulesOffsets }

MalformedTables ==
    { NotAMapping("array"),
      [overall |-> NotAMapping("number")],
      [overall |-> BenchEntry(20), email |-> NotAMapping("number")] }

RulesTables ==
    {<<>>, [email |-> BenchEntry(20)]}
    \cup {[overall |-> BenchEntry(v)] : v \in BenchValues}
    \cup MalformedTables

InitBenchRules ==
    /\ analyzer = "BenchmarkAnalyzer"
    /\ kpi_summary \in RulesSummaries
    /\ benchmarks \in RulesTables
    /\ comparisons = <<>>
    /\ bench_insights = <<>>
    /\ bench_recommendations = <<>>
    /\ op = NoCall
    /\ returned = <<>>
    /\ df = [cols |-> {}, rows |-> <<>>]
    /\ combined_df = df
    /\ NoAnomalyDetector /\ NoKPICalculator /\ NoWeatherAnalyzer
    /\ NoRequest

\* the cutoffs get_strengths and get_weaknesses are called with
StrengthCutoffs == {MinPctAbove, 0, 25}
WeaknessCutoffs == {MaxPctBelow, 0, -25}

GetStrengthsCall ==
    \E min_pct_above \in StrengthCutoffs :
        /\ op' = [name |-> "get_strengths", args |-> <<min_pct_above>>]
        /\ returned' = GetStrengths(comparisons, min_pct_above)
        /\ UNCHANGED <<benchVars, notBench>>

GetWeaknessesCall ==
    \E max_pct_below \in WeaknessCutoffs :
        /\ op' = [name |-> "get_weaknesses", args |-> <<max_pct_below>>]
        /\ returned' = GetWeaknesses(comparisons, max_pct_below)
        /\ UNCHANGED <<benchVars, notBench>>

GenerateBenchmarkInsightsCall ==
    /\ op' = [name |-> "generate_benchmark_insights", args |-> <<>>]
    /\ bench_insights' = GenerateBenchmarkInsights(comparisons)
    /\ returned' = bench_insights'
    /\ UNCHANGED <<kpi_summary, benchmarks, comparisons, bench_recommendations, notBench>>

GenerateBenchmarkRecommendationsCall ==
    /\ op' = [name |-> "generate_benchmark_recommendations", args |-> <<>>]
    /\ bench_recommendations' = GenerateBenchmarkRecommendations(comparisons)
    /\ returned' = bench_recommendations'
    /\ UNCHANGED <<kpi_summary, benchmarks, comparisons, bench_insights, notBench>>

GetBenchSummaryCall ==
    /\ op' = [name |-> "get_summary", args |-> <<>>]
    /\ returned' = GetBenchSummary(comparisons, bench_insights, bench_recommendations,
                                   benchmarks)
    /\ UNCHANGED <<benchVars, notBench>>

\* BenchmarkAnalyzer.analyze_all: an exception of compare_overall_metrics or
\* compare_by_channel ends it, with what was stored before kept
BenchAnalyzeAllCall ==
    LET after_overall == AfterCompareOverall(kpi_summary, benchmarks, comparisons)
        after_channels == AfterCompareByChannel(kpi_summary, benchmarks, after_overall)
    IN IF benchmarks = <<>>
       THEN /\ op' = [name |-> "analyze_all", args |-> <<>>]
            /\ returned' = <<>>
            /\ UNCHANGED <<benchVars, notBench>>
       ELSE IF CompareOverallRaises(benchmarks)
       THEN /\ op' = Raising("analyze_all", <<>>, "AttributeError")
            /\ returned' = <<>>
            /\ UNCHANGED <<benchVars, notBench>>
       ELSE IF CompareByChannelRaises(kpi_summary, benchmarks)
       THEN /\ op' = Raising("analyze_all", <<>>, "AttributeError")
            /\ returned' = <<>>
            /\ comparisons' = after_overall
            /\ UNCHANGED <<kpi_summary, benchmarks, bench_insights,
                           bench_recommendations, notBench>>
       ELSE /\ op' = [name |-> "analyze_all", args |-> <<>>]
            /\ comparisons' = after_channels
            /\ bench_insights' = GenerateBenchmarkInsights(comparisons')
            /\ bench_recommendations' = GenerateBenchmarkRecommendations(comparisons')
            /\ returned' = GetBenchSummary(comparisons', bench_insights',
                                           bench_recommendations', benchmarks)
            /\ UNCHANGED <<kpi_summary, benchmarks, notBench>>

NextBenchRules ==
    \/ CompareOverallMetricsCall
    \/ CompareByChannelCall
    \/ GetStrengthsCall
    \/ GetWeaknessesCall
    \/ GenerateBenchmarkInsightsCall
    \/ GenerateBenchmarkRecommendationsCall
    \/ GetBenchSummaryCall
    \/ BenchAnalyzeAllCall

InitRules == InitAnomalyRules \/ InitBenchRules

NextRules ==
    \/ analyzer = "AnomalyDetector" /\ NextAnomalyRules
    \/ analyzer = "BenchmarkAnalyzer" /\ NextBenchRules

SpecRules == InitRules /\ [][NextRules]_vars

(***************************************************************************)
(* Claims about the BenchmarkAnalyzer.                                     *)
(***************************************************************************)
\* the overall-level comparisons made so far
OverallComparisons == IF "overall" \in DOMAIN comparisons THEN Range(comparisons["overall"]) ELSE {}

\* the channel-level comparisons made so far, of all channels
ChannelComparisons ==
    IF "by_channel" \in DOMAIN comparisons
    THEN UNION {Range(comparisons["by_channel"][c].comparison) :
                    c \in 1..Len(comparisons["by_channel"])}
    ELSE {}

\* pct_difference is the whole number n
PctIs(cmp, n) == cmp.pct_difference = Frac(n, 1)

\* C5 as stated: a comparison with pct_difference = 12 is tiered top_40 at the
\* overall level and top_20 at channel granularity.
C5_TwelveIsTop40OverallTop20Channel ==
    /\ \A cmp \in OverallComparisons : PctIs(cmp, 12) => cmp.tier = "top_40"
    /\ \A cmp \in ChannelComparisons : PctIs(cmp, 12) => cmp.tier = "top_20"

\* C5: a comparison with pct_difference = 12 is tiered top_40 at the overall
\* level and at channel granularity alike (12 is not above the channel
\* cut-off of 15); the two levels differ between the cut-offs, e.g. a
\* pct_difference of 16 is top_40 overall and top_20 at channel granularity.
C5_TwelveIsTop40AtBothLevels ==
    /\ \A cmp \in OverallComparisons : PctIs(cmp, 12) => cmp.tier = "top_40"
    /\ \A cmp \in ChannelComparisons : PctIs(cmp, 12) => cmp.tier = "top_40"
    /\ \A cmp \in OverallComparisons : PctIs(cmp, 16) => cmp.tier = "top_40"
    /\ \A cmp \in ChannelComparisons : PctIs(cmp, 16) => cmp.tier = "top_20"

\* the same KPIs at pct_difference 12 and 16 compared at both levels
C5_Witness ==
    \E a \in OverallComparisons, b \in ChannelComparisons :
        /\ a.kpi_name = b.kpi_name
        /\ PctIs(a, 12) /\ PctIs(b, 12)
        /\ a.tier = "top_40" /\ b.tier = "top_40"
        /\ \E c \in OverallComparisons, d \in ChannelComparisons :
              /\ c.kpi_name = d.kpi_name
              /\ PctIs(c, 16) /\ PctIs(d, 16)
              /\ c.tier = "top_40" /\ d.tier = "top_20"

\* the tier the ladder of the specification gives a pct_difference p/q
\* (q > 0), for the cut-offs `near` < `far`: each tier as the interval of
\* pct_difference it covers
LadderTier(p, q, near, far) ==
    CASE Abs(p) < 5 * q -> "in_line"
      [] p > far * q -> "top_20"
      [] p > near * q /\ p <= far * q /\ Abs(p) >= 5 * q -> "top_40"
      [] p < -far * q -> "bottom_20"
      [] p < -near * q /\ p >= -far * q /\ Abs(p) >= 5 * q -> "bottom_40"
      [] Abs(p) >= 5 * q /\ Abs(p) <= near * q -> "average"

Tiers == {"in_line", "top_20", "top_40", "bottom_20", "bottom_40", "average"}

\* pct_difference recomputed from the two values of a comparison, as p/q
PctNum(cmp) == IF cmp.benchmark_value = 0 THEN 0 ELSE 100 * (cmp.client_value - cmp.benchmark_value)
PctDen(cmp) == IF cmp.benchmark_value = 0 THEN 1 ELSE cmp.benchmark_value

\* C6: the tier of every comparison is the one the ladder gives its
\* pct_difference: overall |pct|<5 in_line, >20 top_20, >10 top_40, <-20
\* bottom_20, <-10 bottom_40, else average; channel |pct|<5 in_line, >15
\* top_20, >5 top_40, <-15 bottom_20, <-5 bottom_40, else average; every
\* comparison gets exactly one of the six tiers.
C6_TierFollowsLadder ==
    /\ \A cmp \in OverallComparisons :
          cmp.tier \in Tiers /\ cmp.tier = LadderTier(PctNum(cmp), PctDen(cmp), 10, 20)
    /\ \A cmp \in ChannelComparisons :
          cmp.tier \in Tiers /\ cmp.tier = LadderTier(PctNum(cmp), PctDen(cmp), 5, 15)

\* comparisons at the rungs of both ladders have been made
C6_Witness ==
    /\ \E cmp \in OverallComparisons : PctIs(cmp, 20) /\ cmp.tier = "top_40"
    /\ \E cmp \in OverallComparisons : PctIs(cmp, -10) /\ cmp.tier = "average"
    /\ \E cmp \in ChannelComparisons : PctIs(cmp, 5) /\ cmp.tier = "average"
    /\ \E cmp \in ChannelComparisons : PctIs(cmp, -20) /\ cmp.tier = "bottom_20"

WeatherCols == <<"temperature_c", "rainfall_mm">>
PerformanceCols == <<"conversions", "revenue", "visits", "clicks", "impressions">>
MetricsToAnalyze == <<"conversions", "revenue", "visits", "clicks">>

\* check_weather_data_available
CheckWeatherDataAvailable(d) == \A j \in 1..Len(WeatherCols) : WeatherCols[j] \in d.cols

\* [col for col in names if col in self.df.columns]
AvailableCols(names, d) == SelectSeq(names, LAMBDA c : c \in d.cols)

\* frame[cols].dropna(): the rows with every one of the columns present
ValidRows(rows, cols) == SelectSeq(rows, LAMBDA r : \A c \in cols : r[c] # NaN)

\* one column of a sequence of rows
Cells(rows, col) == [i \in 1..Len(rows) |-> rows[i][col]]

\* comparisons of floats (a NaN compares false)
FloatGT(a, b) == a.k = "num" /\ b.k = "num" /\ a.num * b.den > b.num * a.den
FloatLT(a, b) == FloatGT(b, a)

\* abs(f) > t/100, abs(f) >= t/100, f > t/100 and f < t/100
AbsAbove(f, t) == f.k = "num" /\ 100 * Abs(f.num) > t * f.den
AbsAtLeast(f, t) == f.k = "num" /\ 100 * Abs(f.num) >= t * f.den
Above(f, t) == f.k = "num" /\ 100 * f.num > t * f.den
Below(f, t) == f.k = "num" /\ 100 * f.num < t * f.den

\* `p_value < 0.05` and the default of `threshold`, in hundredths
SignificanceLevel == 5
StrongThreshold == 60

\* scipy.stats.pearsonr is not part of the repository.  It is a function of
\* its two samples; `oracle` holds the (r, p) it computes, in hundredths,
\* for the samples of each weather column, taken over the whole dataset
\* ("all") and over the rows of one channel ("channel").  For a constant
\* sample it gives (nan, nan).
IsConstantSample(x) == \A i, j \in 1..Len(x) : x[i] = x[j]

Pearsonr(oracle, scope, weather_col, x, y) ==
    IF IsConstantSample(x) \/ IsConstantSample(y)
    THEN [corr |-> FNaN, p_value |-> FNaN]
    ELSE [corr |-> Frac(oracle[scope][weather_col].r, 100),
          p_value |-> Frac(oracle[scope][weather_col].p, 100)]

\* the entry calculate_correlations stores for one pair
CorrelationEntry(o) ==
    [correlation |-> o.corr, p_value |-> o.p_value,
     significant |-> Below(o.p_value, SignificanceLevel)]

\* self.df[[perf_col, weather_col]].dropna()
ValidData(d, perf_col, weather_col) == ValidRows(d.rows, {perf_col, weather_col})

\* a sample pearsonr is computed on from two rows up
EnoughDataFromTwo(valid_data) == Len(valid_data) > 1

\* `len(valid_data) > 2`: at least 3 data points
EnoughData(valid_data) == Len(valid_data) > 2

\* calculate_correlations, past its guard
CalculateCorrelations(d, oracle) ==
    [m \in Range(AvailableCols(PerformanceCols, d)) |->
        [w \in {v \in Range(WeatherCols) : EnoughData(ValidData(d, m, v))} |->
            CorrelationEntry(Pearsonr(oracle, "all", w,
                Cells(ValidData(d, m, w), w), Cells(ValidData(d, m, w), m)))]]

\* strong with a strict comparison against the threshold
IsStrongExclusive(data, threshold) ==
    AbsAbove(data.correlation, threshold) /\ data.significant

\* `corr >= threshold and data['significant']`
IsStrong(data, threshold) ==
    AbsAtLeast(data.correlation, threshold) /\ data.significant

\* get_strong_correlations
GetStrongCorrelations(corrs, threshold) ==
    LET strongOf(m) == {w \in DOMAIN corrs[m] : IsStrong(corrs[m][w], threshold)}
    IN [m \in {k \in DOMAIN corrs : strongOf(k) # {}} |->
            [w \in strongOf(m) |-> corrs[m][w]]]

\* `rainy_threshold = 1.0`
RainyThreshold == 1

\* frame[col].mean(), .sum(), .max() and .min(), NaN cells skipped
MeanOf(rows, col) == Mean(Stats(Cells(rows, col)))
TotalOf(rows, col) == SumSeq(DropNa(Cells(rows, col)))
MaxCell(rows, col) ==
    LET x == Range(DropNa(Cells(rows, col)))
    IN IF x = {} THEN NaN ELSE CHOOSE v \in x : \A u \in x : u <= v
MinCell(rows, col) ==
    LET x == Range(DropNa(Cells(rows, col)))
    IN IF x = {} THEN NaN ELSE CHOOSE v \in x : \A u \in x : v <= u

\* ((rainy_avg - non_rainy_avg) / non_rainy_avg) * 100 if non_rainy_avg > 0 else 0
RainyPctChange(rainy_avg, non_rainy_avg) ==
    IF FloatGT(non_rainy_avg, FZero)
    THEN IF rainy_avg.k = "num"
         THEN Frac(100 * (rainy_avg.num * non_rainy_avg.den - non_rainy_avg.num * rainy_avg.den),
                   rainy_avg.den * non_rainy_avg.num)
         ELSE FNaN
    ELSE FZero

\* the entry of one metric in analyze_rainy_days
RainyMetric(rainy_days, non_rainy_days, metric) ==
    LET rainy_avg == MeanOf(rainy_days, metric)
        non_rainy_avg == MeanOf(non_rainy_days, metric)
        pct_change == RainyPctChange(rainy_avg, non_rainy_avg)
    IN [rainy_avg |-> rainy_avg, non_rainy_avg |-> non_rainy_avg, pct_change |-> pct_change,
        interpretation |-> IF FloatGT(pct_change, FZero) THEN "increase" ELSE "decrease"]

\* analyze_rainy_days
AnalyzeRainyDays(d) ==
    IF "rainfall_mm" \notin d.cols THEN <<>>
    ELSE LET rainy_days == SelectSeq(d.rows,
                 LAMBDA r : r.rainfall_mm # NaN /\ r.rainfall_mm > RainyThreshold)
             non_rainy_days == SelectSeq(d.rows,
                 LAMBDA r : r.rainfall_mm # NaN /\ r.rainfall_mm <= RainyThreshold)
             available_metrics == Range(AvailableCols(MetricsToAnalyze, d))
         IN [rainy_days_count |-> Len(rainy_days),
             non_rainy_days_count |-> Len(non_rainy_days),
             metrics |-> IF Len(rainy_days) > 0 /\ Len(non_rainy_days) > 0
                         THEN [m \in available_metrics |->
                                    RainyMetric(rainy_days, non_rainy_days, m)]
                         ELSE <<>>]

\* temp_ranges, in its order
TempRanges == << [name |-> "cold", min_t |-> 0, max_t |-> 10],
                 [name |-> "cool", min_t |-> 10, max_t |-> 15],
                 [name |-> "mild", min_t |-> 15, max_t |-> 20],
                 [name |-> "warm", min_t |-> 20, max_t |-> 25],
                 [name |-> "hot", min_t |-> 25, max_t |-> 50] >>

\* the rows of one temperature range
TempData(d, g) ==
    SelectSeq(d.rows, LAMBDA r : r.temperature_c # NaN /\ r.temperature_c >= g.min_t
                                    /\ r.temperature_c < g.max_t)

\* the ranges with rows, in the order of temp_ranges
TempRangesWithData(d) == SelectSeq(TempRanges, LAMBDA g : Len(TempData(d, g)) > 0)

\* the range_analysis of one temperature range
RangeAnalysis(d, temp_data) ==
    [count |-> Len(temp_data),
     metrics |-> [m \in Range(AvailableCols(MetricsToAnalyze, d)) |->
                    [avg |-> MeanOf(temp_data, m), total |-> TotalOf(temp_data, m),
                     max |-> MaxCell(temp_data, m), min |-> MinCell(temp_data, m)]]]

\* analyze_temperature_ranges
AnalyzeTemperatureRanges(d) ==
    IF "temperature_c" \notin d.cols THEN <<>>
    ELSE LET gs == TempRangesWithData(d)
         IN [nm \in {gs[j].name : j \in 1..Len(gs)} |->
                RangeAnalysis(d, TempData(d, CHOOSE g \in Range(gs) : g.name = nm))]

\* the (metric, weather_type) pairs of a correlations dict, in the order the
\* nested loops over its items visit them
RECURSIVE PairsInOrder(_, _)
PairsInOrder(corrs, metrics) ==
    IF metrics = <<>> THEN <<>>
    ELSE LET m == Head(metrics)
             here == IF m \in DOMAIN corrs
                     THEN LET ws == SelectSeq(WeatherCols, LAMBDA w : w \in DOMAIN corrs[m])
                          IN [j \in 1..Len(ws) |-> <<m, ws[j]>>]
                     ELSE <<>>
         IN here \o PairsInOrder(corrs, Tail(metrics))

\* x[1]['metrics'].get('conversions', {}).get('avg', 0)
ConversionsAvg(range_analysis) ==
    IF "conversions" \in DOMAIN range_analysis.metrics
    THEN range_analysis.metrics["conversions"].avg
    ELSE FZero

\* max(temp_analysis.items(), key=...): the first item no later one exceeds
RECURSIVE BestTemp(_, _, _)
BestTemp(temp_analysis, names, best) ==
    IF names = <<>> THEN best
    ELSE BestTemp(temp_analysis, Tail(names),
            IF FloatGT(ConversionsAvg(temp_analysis[Head(names)]),
                       ConversionsAvg(temp_analysis[best]))
            THEN Head(names) ELSE best)

\* min(temp_analysis.items(), key=...)
RECURSIVE WorstTemp(_, _, _)
WorstTemp(temp_analysis, names, worst) ==
    IF names = <<>> THEN worst
    ELSE WorstTemp(temp_analysis, Tail(names),
            IF FloatLT(ConversionsAvg(temp_analysis[Head(names)]),
                       ConversionsAvg(temp_analysis[worst]))
            THEN Head(names) ELSE worst)

\* the keys of temp_analysis in insertion order
TempNames(d) == [j \in 1..Len(TempRangesWithData(d)) |-> TempRangesWithData(d)[j].name]

\* generate_weather_insights
GenerateWeatherInsights(d, corrs) ==
    LET strong_corr == GetStrongCorrelations(corrs, StrongThreshold)
        sp == PairsInOrder(strong_corr, PerformanceCols)
        corr_insights ==
            [j \in 1..Len(sp) |->
                LET corr_value == strong_corr[sp[j][1]][sp[j][2]].correlation
                IN [type |-> "correlation", metric |-> sp[j][1], weather_factor |-> sp[j][2],
                    correlation |-> corr_value,
                    strength |-> IF AbsAbove(corr_value, 70) THEN "strong" ELSE "moderate"]]
        rainy_analysis == AnalyzeRainyDays(d)
        rainy_metrics ==
            IF rainy_analysis = <<>> THEN <<>>
            ELSE SelectSeq(AvailableCols(MetricsToAnalyze, d),
                    LAMBDA m : /\ m \in DOMAIN rainy_analysis.metrics
                               /\ AbsAbove(rainy_analysis.metrics[m].pct_change, 1000))
        rainy_insights ==
            [j \in 1..Len(rainy_metrics) |->
                [type |-> "rainy_day", metric |-> rainy_metrics[j],
                 pct_change |-> rainy_analysis.metrics[rainy_metrics[j]].pct_change]]
        temp_analysis == AnalyzeTemperatureRanges(d)
        names == TempNames(d)
        temp_insights ==
            IF temp_analysis = <<>> THEN <<>>
            ELSE LET best_temp == BestTemp(temp_analysis, Tail(names), Head(names))
                     worst_temp == WorstTemp(temp_analysis, Tail(names), Head(names))
                 IN IF best_temp # worst_temp
                    THEN << [type |-> "temperature_range", best_temp |-> best_temp,
                             worst_temp |-> worst_temp] >>
                    ELSE <<>>
    IN corr_insights \o rainy_insights \o temp_insights

\* generate_recommendations
GenerateRecommendations(d, corrs) ==
    LET strong_corr == GetStrongCorrelations(corrs, StrongThreshold)
        sp == PairsInOrder(strong_corr, PerformanceCols)
        corr_recs ==
            Flatten([j \in 1..Len(sp) |->
                LET data == strong_corr[sp[j][1]][sp[j][2]]
                IN IF Above(data.correlation, 60)
                   THEN << [type |-> "increase_budget_when_favorable", priority |-> "high"] >>
                   ELSE IF Below(data.correlation, -60)
                   THEN << [type |-> "shift_to_digital_when_unfavorable", priority |-> "high"] >>
                   ELSE <<>>])
        rainy_analysis == AnalyzeRainyDays(d)
        rainy_pct ==
            IF rainy_analysis # <<>> /\ "conversions" \in DOMAIN rainy_analysis.metrics
            THEN rainy_analysis.metrics["conversions"].pct_change
            ELSE FZero
        rainy_recs ==
            IF rainy_analysis = <<>> THEN <<>>
            ELSE IF Above(rainy_pct, 1000)
            THEN << [type |-> "capitalize_on_rainy_days", priority |-> "high"] >>
            ELSE IF Below(rainy_pct, -1000)
            THEN << [type |-> "reduce_spend_on_rainy_days", priority |-> "medium"] >>
            ELSE <<>>
        temp_recs ==
            IF "temperature_c" \in d.cols /\ Len(TempNames(d)) > 1
            THEN << [type |-> "optimize_for_best_temperature", priority |-> "medium"] >>
            ELSE <<>>
    IN corr_recs \o rainy_recs \o temp_recs

\* channel_df[['conversions', 'temperature_c', 'rainfall_mm']].dropna()
ChannelValidData(d, channel) ==
    ValidRows(RowsOf(d, "channel", channel), {"conversions", "temperature_c", "rainfall_mm"})

\* the entry get_by_channel_weather_impact builds for one channel
ChannelImpact(d, oracle, channel) ==
    LET valid_data == ChannelValidData(d, channel)
        entry(o) == [value |-> o.corr, p_value |-> o.p_value,
                     significant |-> Below(o.p_value, SignificanceLevel)]
        conv == Cells(valid_data, "conversions")
    IN [temperature_correlation |->
            entry(Pearsonr(oracle, "channel", "temperature_c",
                           Cells(valid_data, "temperature_c"), conv)),
        rainfall_correlation |->
            entry(Pearsonr(oracle, "channel", "rainfall_mm",
                           Cells(valid_data, "rainfall_mm"), conv))]

\* get_by_channel_weather_impact
GetByChannelWeatherImpact(d, oracle) ==
    IF "channel" \notin d.cols \/ ~CheckWeatherDataAvailable(d) THEN <<>>
    ELSE [c \in {k \in Range(Cells(d.rows, "channel")) : EnoughData(ChannelValidData(d, k))} |->
            ChannelImpact(d, oracle, c)]

\* generate_summary
GenerateSummary(d, oracle, corrs, ins, recs) ==
    [data_available |-> CheckWeatherDataAvailable(d),
     correlations |-> corrs,
     strong_correlations |-> GetStrongCorrelations(corrs, StrongThreshold),
     rainy_day_analysis |-> AnalyzeRainyDays(d),
     temperature_range_analysis |-> AnalyzeTemperatureRanges(d),
     by_channel_impact |-> GetByChannelWeatherImpact(d, oracle),
     insights |-> ins,
     recommendations |-> recs]

(***************************************************************************)
(* The datasets handed to the WeatherAnalyzer: up to MaxWeatherRows rows   *)
(* of conversions, with or without each of temperature_c, rainfall_mm and  *)
(* channel; the cells of a column repeat one of its patterns.              *)
(***************************************************************************)
MaxWeatherRows == 4

TemperaturePatterns == {<<5, 12, 22, 30>>, <<12, 12, NaN, 12>>}
RainfallPatterns == {<<0, 5, 0, 5>>, <<2, NaN, 1, 0>>}
ConversionPatterns == {<<10, 20, 10, 40>>, <<0, 0, 9, 0>>}
ChannelPatterns == {<<"email", "email", "email", "email">>,
                    <<"email", "social", "email", "email">>}

PatternCell(pattern, i) == pattern[((i - 1) % Len(pattern)) + 1]

WeatherColumnSets ==
    {{"conversions"} \cup w \cup c :
        w \in SUBSET {"temperature_c", "rainfall_mm"}, c \in SUBSET {"channel"}}

WeatherRow(cols, i, t, r, c, ch) ==
    [col \in cols |->
        CASE col = "temperature_c" -> PatternCell(t, i)
          [] col = "rainfall_mm" -> PatternCell(r, i)
          [] col = "conversions" -> PatternCell(c, i)
          [] col = "channel" -> PatternCell(ch, i)]

WeatherDatasets ==
    {[cols |-> cols, rows |-> [i \in 1..n |-> WeatherRow(cols, i, t, r, c, ch)]] :
        cols \in WeatherColumnSets, n \in 0..MaxWeatherRows,
        t \in TemperaturePatterns, r \in RainfallPatterns,
        c \in ConversionPatterns, ch \in ChannelPatterns}

\* What pearsonr computes is part of the input: the (r, p) of a dataset's
\* samples are four consecutive entries of PearsonGrid, from any start.
PearsonGrid == << [r |-> 90, p |-> 20], [r |-> -60, p |-> 4], [r |-> 65, p |-> 1],
                  [r |-> 60, p |-> 4], [r |-> 59, p |-> 1], [r |-> -65, p |-> 1],
                  [r |-> 60, p |-> 5] >>

PearsonOracle(i) ==
    [all |-> [temperature_c |-> PatternCell(PearsonGrid, i),
              rainfall_mm |-> PatternCell(PearsonGrid, i + 1)],
     channel |-> [temperature_c |-> PatternCell(PearsonGrid, i + 2),
                  rainfall_mm |-> PatternCell(PearsonGrid, i + 3)]]

PearsonOracles == {PearsonOracle(i) : i \in 1..Len(PearsonGrid)}

\* the thresholds get_strong_correlations is called with, in hundredths
StrongThresholds == {StrongThreshold, 65, 90}

\* WeatherAnalyzer.__init__
InitWeather ==
    /\ analyzer = "WeatherAnalyzer"
    /\ df \in WeatherDatasets
    /\ combined_df = df
    /\ correlations = <<>>
    /\ insights = <<>>
    /\ recommendations = <<>>
    /\ IF CheckWeatherDataAvailable(df) THEN pearson \in PearsonOracles ELSE pearson = <<>>
    /\ op = NoCall
    /\ returned = <<>>
    /\ NoAnomalyDetector /\ NoKPICalculator /\ NoBenchmarkAnalyzer
    /\ NoRequest

\* calculate_correlations
CalculateCorrelationsCall ==
    /\ op' = [name |-> "calculate_correlations", args |-> <<>>]
    /\ IF ~CheckWeatherDataAvailable(df)
       THEN returned' = <<>> /\ UNCHANGED correlations
       ELSE /\ returned' = CalculateCorrelations(df, pearson)
            /\ correlations' = returned'
    /\ UNCHANGED <<df, insights, recommendations, pearson, notWeather>>

\* get_strong_correlations
GetStrongCorrelationsCall ==
    \E threshold \in StrongThresholds :
        /\ op' = [name |-> "get_strong_correlations", args |-> <<threshold>>]
        /\ returned' = GetStrongCorrelations(correlations, threshold)
        /\ UNCHANGED <<df, weatherVars, notWeather>>

\* analyze_rainy_days
AnalyzeRainyDaysCall ==
    /\ op' = [name |-> "analyze_rainy_days", args |-> <<>>]
    /\ returned' = AnalyzeRainyDays(df)
    /\ UNCHANGED <<df, weatherVars, notWeather>>

\* analyze_temperature_ranges
AnalyzeTemperatureRangesCall ==
    /\ op' = [name |-> "analyze_temperature_ranges", args |-> <<>>]
    /\ returned' = AnalyzeTemperatureRanges(df)
    /\ UNCHANGED <<df, weatherVars, notWeather>>

\* generate_weather_insights
GenerateWeatherInsightsCall ==
    /\ op' = [name |-> "generate_weather_insights", args |-> <<>>]
    /\ returned' = GenerateWeatherInsights(df, correlations)
    /\ insights' = returned'
    /\ UNCHANGED <<df, correlations, recommendations, pearson, notWeather>>

\* generate_recommendations
GenerateRecommendationsCall ==
    /\ op' = [name |-> "generate_recommendations", args |-> <<>>]
    /\ returned' = GenerateRecommendations(df, correlations)
    /\ recommendations' = returned'
    /\ UNCHANGED <<df, correlations, insights, pearson, notWeather>>

\* get_by_channel_weather_impact
GetByChannelWeatherImpactCall ==
    /\ op' = [name |-> "get_by_channel_weather_impact", args |-> <<>>]
    /\ returned' = GetByChannelWeatherImpact(df, pearson)
    /\ UNCHANGED <<df, weatherVars, notWeather>>

\* generate_summary
GenerateSummaryCall ==
    /\ op' = [name |-> "generate_summary", args |-> <<>>]
    /\ returned' = GenerateSummary(df, pearson, correlations, insights, recommendations)
    /\ UNCHANGED <<df, weatherVars, notWeather>>

\* analyze_all
AnalyzeAllCall ==
    /\ op' = [name |-> "analyze_all", args |-> <<>>]
    /\ IF ~CheckWeatherDataAvailable(df)
       THEN returned' = <<>> /\ UNCHANGED weatherVars
       ELSE /\ correlations' = CalculateCorrelations(df, pearson)
            /\ insights' = GenerateWeatherInsights(df, correlations')
            /\ recommendations' = GenerateRecommendations(df, correlations')
            /\ returned' = GenerateSummary(df, pearson, correlations', insights', recommendations')
            /\ UNCHANGED pearson
    /\ UNCHANGED <<df, notWeather>>

NextWeather ==
    \/ CalculateCorrelationsCall
    \/ GetStrongCorrelationsCall
    \/ AnalyzeRainyDaysCall
    \/ AnalyzeTemperatureRangesCall
    \/ GenerateWeatherInsightsCall
    \/ GenerateRecommendationsCall
    \/ GetByChannelWeatherImpactCall
    \/ GenerateSummaryCall
    \/ AnalyzeAllCall

SpecWeather == InitWeather /\ [][NextWeather]_vars

(***************************************************************************)
(* Claims about the WeatherAnalyzer.                                       *)
(***************************************************************************)
\* an empty result: {} or [], and for generate_summary a summary that
\* reports no data and has nothing but empty parts
IsEmptyResult(o, r) ==
    IF o.name = "generate_summary"
    THEN /\ ~r.data_available
         /\ r.correlations = <<>> /\ r.strong_correlations = <<>>
         /\ r.rainy_day_analysis = <<>> /\ r.temperature_range_analysis = <<>>
         /\ r.by_channel_impact = <<>>
         /\ r.insights = <<>> /\ r.recommendations = <<>>
    ELSE r = <<>>

\* C9: when the dataset lacks temperature_c or rainfall_mm (either one or
\* both), every operation of the WeatherAnalyzer returns an empty result.
C9_MissingWeatherDataGivesEmpty ==
    (op.name # "" /\ ~CheckWeatherDataAvailable(df)) => IsEmptyResult(op, returned)

\* the same when both columns are missing
C9_HoldsWhenBothMissing ==
    (op.name # "" /\ "temperature_c" \notin df.cols /\ "rainfall_mm" \notin df.cols)
        => IsEmptyResult(op, returned)

\* the pairs of the stored correlations
CorrelationPairs == {<<m, w>> : m \in DOMAIN correlations, w \in Range(WeatherCols)}

\* C10: get_strong_correlations(threshold) reports a pair exactly when
\* |correlation| >= threshold and p_value < 0.05, with its stored entry:
\* r = 0.9 with p = 0.2 is not strong, r = 0.65 with p = 0.01 is strong, and
\* |r| = 0.6 with p < 0.05 is strong at the default threshold 0.6.
C10_StrongIffThresholdAndSignificant ==
    op.name = "get_strong_correlations" =>
        \A pw \in CorrelationPairs :
            LET m == pw[1]
                w == pw[2]
                stored == w \in DOMAIN correlations[m]
                reported == m \in DOMAIN returned /\ w \in DOMAIN returned[m]
                r == correlations[m][w].correlation
                p == correlations[m][w].p_value
            IN /\ reported => stored /\ returned[m][w] = correlations[m][w]
               /\ stored =>
                    /\ reported <=> /\ r.k = "num" /\ p.k = "num"
                                    /\ 100 * Abs(r.num) >= op.args[1] * r.den
                                    /\ 20 * p.num < p.den
                    /\ (r = Frac(9, 10) /\ p = Frac(1, 5)) => ~reported
                    /\ (r = Frac(13, 20) /\ p = Frac(1, 100) /\ op.args[1] = 60) => reported
                    /\ (Abs(r.num) = 3 /\ r.den = 5 /\ p = Frac(1, 25) /\ op.args[1] = 60)
                            => reported

\* get_strong_correlations with the default threshold over r = 0.9, p = 0.2
\* (not reported) and |r| = 0.6, p = 0.04 (reported)
C10_Witness ==
    /\ op = [name |-> "get_strong_correlations", args |-> <<StrongThreshold>>]
    /\ "conversions" \in DOMAIN correlations
    /\ DOMAIN correlations["conversions"] = {"temperature_c", "rainfall_mm"}
    /\ correlations["conversions"]["temperature_c"].correlation = Frac(9, 10)
    /\ correlations["conversions"]["temperature_c"].p_value = Frac(1, 5)
    /\ correlations["conversions"]["rainfall_mm"].correlation = Frac(-3, 5)
    /\ correlations["conversions"]["rainfall_mm"].p_value = Frac(1, 25)
    /\ DOMAIN returned = {"conversions"}
    /\ DOMAIN returned["conversions"] = {"rainfall_mm"}

\* the number of rows with both of two columns present
JointObservations(rows, a, b) ==
    Cardinality({i \in 1..Len(rows) : rows[i][a] # NaN /\ rows[i][b] # NaN})

\* C11: a correlation result for a (performance metric, weather variable)
\* pair, over the whole dataset or over the rows of one channel, is in the
\* results only if at least 3 rows have both values present; a pair with
\* fewer joint observations has no entry at all.
C11_PairNeedsThreeJointObservations ==
    /\ \A m \in DOMAIN correlations : \A w \in DOMAIN correlations[m] :
          JointObservations(df.rows, m, w) >= 3
    /\ op.name = "calculate_correlations" =>
          \A m \in DOMAIN returned : \A w \in Range(WeatherCols) :
              JointObservations(df.rows, m, w) < 3 => w \notin DOMAIN returned[m]
    /\ op.name = "get_by_channel_weather_impact" =>
          \A c \in DOMAIN returned :
              /\ JointObservations(RowsOf(df, "channel", c), "conversions", "temperature_c") >= 3
              /\ JointObservations(RowsOf(df, "channel", c), "conversions", "rainfall_mm") >= 3

\* calculate_correlations over a dataset with three joint observations of
\* rainfall and two of temperature: the first pair is in, the second is not
C11_Witness ==
    /\ op.name = "calculate_correlations"
    /\ CheckWeatherDataAvailable(df)
    /\ JointObservations(df.rows, "conversions", "temperature_c") = 2
    /\ JointObservations(df.rows, "conversions", "rainfall_mm") = 3
    /\ DOMAIN returned = {"conversions"}
    /\ DOMAIN returned["conversions"] = {"rainfall_mm"}

(***************************************************************************)
(* Missing columns in the dataset of the KPICalculator.                    *)
(***************************************************************************)
GroupingColumns == {"channel", "campaign", "city", "date"}

\* the operations that compute the granularity of a grouping column, and the
\* keys of the summary that hold it
OperationsOf == [channel |-> {"calculate_by_channel"},
                 campaign |-> {"calculate_by_campaign", "get_top_performers",
                               "get_worst_performers"},
                 city |-> {"calculate_by_city"},
                 date |-> {"calculate_by_date", "get_day_of_week_analysis"}]
SummaryKeysOf == [channel |-> {"by_channel"},
                  campaign |-> {"by_campaign", "top_campaigns", "worst_campaigns"},
                  city |-> {"by_city"},
                  date |-> {"daily_trend", "by_day_of_week"}]

\* the last operation completed, and what it returned for the granularity of
\* `col` is empty
CompletesWithEmpty(col) ==
    /\ ~HasRaised(op)
    /\ op.name \in OperationsOf[col] => returned = <<>>
    /\ op.name = "generate_kpi_summary" =>
          \A key \in SummaryKeysOf[col] : returned[key] = <<>>

\* C13 as stated: when a grouping column (channel, campaign, city or date) is
\* absent from the dataset, every operation of the KPICalculator, including
\* get_top_performers, get_worst_performers, generate_kpi_summary and
\* calculate_all, completes without raising and the result for that
\* granularity is empty.
C13_MissingGroupingColumnGivesEmpty ==
    \A col \in GroupingColumns :
        KpiColumns \ df.cols = {col} => CompletesWithEmpty(col)

\* the same holds for the grouping columns other than campaign
C13_HoldsExceptCampaign ==
    \A col \in GroupingColumns \ {"campaign"} :
        KpiColumns \ df.cols = {col} => CompletesWithEmpty(col)

CounterColumns == RequiredCounters \cup {"visits"}

\* C14 as stated: for a non-empty dataset from which any of the numeric
\* counter columns (impressions, clicks, conversions, spend, revenue, visits)
\* is absent, the analyzer completes its full analysis without raising.
C14_MissingCounterColumnNeverRaises ==
    (df.rows # <<>> /\ CounterColumns \ df.cols # {}) => ~HasRaised(op)

(***************************************************************************)
(* Running calculate_all again.                                            *)
(***************************************************************************)
\* the summary calculate_all returns on a fresh KPICalculator(d), when no
\* step raises
CalculateAllFresh(d) ==
    LET by(key, col, value) == IF col \in d.cols THEN key :> value ELSE <<>>
        aggs == by("by_channel", "channel", CalculateByGroup(d, "channel"))
                @@ by("by_campaign", "campaign", CalculateByGroup(d, "campaign"))
                @@ by("by_date", "date", CalculateByDate(d))
                @@ by("by_city", "city", CalculateByCity(d))
                @@ by("by_day_of_week", "date", DayOfWeekAnalysis(d))
    IN GenerateKpiSummary("overall" :> CalculateBasicKpis(d), aggs)

\* C16 as stated, for the KPICalculator: every summary calculate_all returns,
\* on a fresh instance or on one that ran calculate_all before, is identical
\* to the summary of a fresh instance over the same unmodified dataset.
C16_RerunGivesSameSummary ==
    (op.name = "generate_kpi_summary" /\ ~HasRaised(op)) =>
        returned = CalculateAllFresh(combined_df)

\* the same holds when the date column of the dataset is datetime64 already
C16_HoldsForDatetimeDates ==
    (op.name = "generate_kpi_summary" /\ ~HasRaised(op)
        /\ combined_df.date_dtype # "object") =>
        returned = CalculateAllFresh(combined_df)

FlagCore(a) ==
    [date |-> a.date, metric |-> a.metric, value |-> a.value, z_score |-> a.z_score,
     severity |-> a.severity, pct_change |-> a.pct_change]

FlagCores(list) == [j \in 1..Len(list) |-> FlagCore(list[j])]

\* the flags of the ungrouped detection over the whole dataset for `metric`
\* that are dated at most `days` days before the latest date of the dataset
FullDetectionInWindow(metric, days) ==
    LET full == DetectAnomaliesByMetric(df, metric, "", z_score_threshold)
    IN IF "date" \notin df.cols \/ df.rows = <<>> THEN <<>>
       ELSE LET latest == MaxOf(Column(df, "date"))
            IN SelectSeq(full, LAMBDA a : latest - a.date <= days)

\* C18: detect_recent_anomalies(metric, N) returns exactly the flags of the
\* ungrouped detection over the whole dataset for that metric (same date,
\* value, Z-score, severity and percentage deviation, in the same order)
\* that are dated within N days of the latest date of the dataset: the
\* window neither changes the baseline nor adds a flag.
C18_RecentIsWindowOfFullDetection ==
    op.name = "detect_recent_anomalies" =>
        returned = FlagCores(FullDetectionInWindow(op.args[1], op.args[2]))

\* the window kept a flag dated before the latest date and left another out
C18_Witness ==
    /\ op.name = "detect_recent_anomalies"
    /\ op.args[2] = 1
    /\ Len(returned) >= 2
    /\ Len(returned) < Len(DetectAnomaliesByMetric(df, op.args[1], "", z_score_threshold))
    /\ \E j \in 1..Len(returned) : returned[j].date < MaxOf(Column(df, "date"))

(***************************************************************************)
(* Recommendation counts.                                                  *)
(***************************************************************************)
SpikeDropTypes == {"spike_investigation", "drop_investigation"}

WeaknessTypes == {"improve_ctr", "reduce_cpc", "improve_cvr", "improve_roas"}

CountOfTypes(recs, types) == Len(SelectSeq(recs, LAMBDA r : r.type \in types))

\* C12: whatever the number of recorded anomalies, the anomaly
\* recommendations hold at most 3 of the types spike_investigation and
\* drop_investigation together; whatever the comparisons, the benchmark
\* recommendations (returned, stored, or in the summary) hold at most 3
\* per-metric weakness recommendations.
C12_AtMostThreeSpikeDropAndWeaknessRecs ==
    /\ op.name = "generate_anomaly_recommendations" =>
          CountOfTypes(returned, SpikeDropTypes) <= 3
    /\ op.name = "generate_benchmark_recommendations" =>
          CountOfTypes(returned, WeaknessTypes) <= 3
    /\ CountOfTypes(bench_recommendations, WeaknessTypes) <= 3
    /\ (analyzer = "BenchmarkAnalyzer" /\ op.name \in {"analyze_all", "get_summary"}
          /\ returned # <<>>) =>
          CountOfTypes(returned.recommendations, WeaknessTypes) <= 3

\* more than 3 critical anomalies are recorded and 3 of them got a
\* spike or drop recommendation
C12_Witness ==
    /\ op.name = "generate_anomaly_recommendations"
    /\ Len(GetCriticalAnomalies(anomalies)) > 3
    /\ CountOfTypes(returned, SpikeDropTypes) = 3

(***************************************************************************)
(* A benchmark table that cannot be used.                                  *)
(***************************************************************************)
\* the table is absent or unreadable ({}), or not a mapping of names to
\* mappings
UnusableTable(table) ==
    \/ table = <<>>
    \/ ~IsMapping(table)
    \/ \E c \in DOMAIN table : ~IsMapping(table[c])

\* C15 as stated: when the benchmark table is absent, unreadable or of
\* malformed structure, no operation of the BenchmarkAnalyzer raises, and
\* the summary analyze_all (or get_summary) returns carries
\* benchmarks_loaded = false.
C15_UnusableTableGivesNotLoaded ==
    (analyzer = "BenchmarkAnalyzer" /\ UnusableTable(benchmarks)) =>
        /\ ~HasRaised(op)
        /\ op.name \in {"analyze_all", "get_summary"} =>
              (returned # <<>> /\ ~returned.benchmarks_loaded)

\* with an absent or unreadable table nothing raises and get_summary carries
\* the flag; analyze_all returns {}
C15_HoldsForAbsentTable ==
    (analyzer = "BenchmarkAnalyzer" /\ benchmarks = <<>>) =>
        /\ ~HasRaised(op)
        /\ op.name = "get_summary" => ~returned.benchmarks_loaded
        /\ op.name = "analyze_all" => returned = <<>>

(***************************************************************************)
(* The benchmark entry a channel is compared against.                      *)
(***************************************************************************)
OverallOrNothing == IF "overall" \in DOMAIN benchmarks THEN benchmarks["overall"] ELSE <<>>

\* the channel's own entry if the table has one, else 'overall'
EntryByExistence(channel) ==
    IF channel \in DOMAIN benchmarks THEN benchmarks[channel] ELSE OverallOrNothing

\* the channel's own entry if the table has one that is not empty, else 'overall'
EntryByContent(channel) ==
    IF channel \in DOMAIN benchmarks /\ benchmarks[channel] # <<>>
    THEN benchmarks[channel]
    ELSE OverallOrNothing

BenchNameOf(kpi) == (CHOOSE e \in Range(KpiBenchMap) : e.kpi = kpi).bench

\* the comparison of one channel holds exactly the KPIs `entry` has a
\* benchmark for, each against the value of `entry`
ComparedAgainst(item, entry) ==
    /\ {item.comparison[j].kpi_name : j \in 1..Len(item.comparison)}
          = {e.kpi : e \in {e \in Range(KpiBenchMap) : e.bench \in DOMAIN entry}}
    /\ \A j \in 1..Len(item.comparison) :
          item.comparison[j].benchmark_value = entry[BenchNameOf(item.comparison[j].kpi_name)]

\* C19 as stated: a channel is compared against its own benchmark entry
\* when the table has one, and against 'overall' if and only if it has
\* none; with neither entry its comparison is empty.
C19_OverallIffNoOwnEntry ==
    op.name = "compare_by_channel" =>
        \A c \in 1..Len(returned) :
            ComparedAgainst(returned[c], EntryByExistence(returned[c].channel))

\* C19 amended: a channel is compared against its own benchmark entry when
\* the table has one that is not empty, and against 'overall' if and only
\* if its own entry is missing or empty; with no usable entry at all its
\* comparison is empty.
C19_OverallIffNoUsableOwnEntry ==
    op.name = "compare_by_channel" =>
        \A c \in 1..Len(returned) :
            ComparedAgainst(returned[c], EntryByContent(returned[c].channel))

\* the table has an empty entry for email and email was compared against
\* the five benchmarks of 'overall'
C19_Witness ==
    /\ op.name = "compare_by_channel"
    /\ benchmarks # <<>>
    /\ DOMAIN benchmarks = {"overall", "email"}
    /\ benchmarks["email"] = <<>>
    /\ returned # <<>>
    /\ returned[1].channel = "email"
    /\ Len(returned[1].comparison) = 5

(***************************************************************************)
(* Strengths and weaknesses.                                               *)
(***************************************************************************)
OverallComparisonOf(metric) ==
    CHOOSE data \in Range(GetOr(comparisons, "overall", <<>>)) : data.kpi_name = metric

MetricsOf(list) == {list[j].metric : j \in 1..Len(list)}

\* no item of the list is before an item with a larger key
DescendingBy(list, key) ==
    \A j \in 1..Len(list) : \A k \in j + 1..Len(list) :
        list[k][key].num * list[j][key].den <= list[j][key].num * list[k][key].den

\* C20: get_strengths(min) returns exactly the overall comparisons with
\* pct_difference strictly above min, each once, in descending order of
\* pct_difference; get_weaknesses(max) exactly those strictly below max, in
\* descending order of magnitude; with the default cutoffs 10 and -10 no
\* metric is in both lists of a summary.
C20_StrengthsAndWeaknesses ==
    LET overall == GetOr(comparisons, "overall", <<>>)
    IN /\ op.name = "get_strengths" =>
             /\ MetricsOf(returned) =
                   {overall[j].kpi_name : j \in {j \in 1..Len(overall) :
                       overall[j].pct_difference.num
                         > op.args[1] * overall[j].pct_difference.den}}
             /\ Len(returned) = Cardinality(MetricsOf(returned))
             /\ \A j \in 1..Len(returned) :
                   returned[j].pct_above = OverallComparisonOf(returned[j].metric).pct_difference
             /\ DescendingBy(returned, "pct_above")
       /\ op.name = "get_weaknesses" =>
             /\ MetricsOf(returned) =
                   {overall[j].kpi_name : j \in {j \in 1..Len(overall) :
                       overall[j].pct_difference.num
                         < op.args[1] * overall[j].pct_difference.den}}
             /\ Len(returned) = Cardinality(MetricsOf(returned))
             /\ \A j \in 1..Len(returned) :
                   LET pct == OverallComparisonOf(returned[j].metric).pct_difference
                   IN returned[j].pct_below = Frac(Abs(pct.num), pct.den)
             /\ DescendingBy(returned, "pct_below")
       /\ (analyzer = "BenchmarkAnalyzer" /\ op.name \in {"analyze_all", "get_summary"}
             /\ returned # <<>>) =>
             MetricsOf(returned.strengths) \cap MetricsOf(returned.weaknesses) = {}

\* get_strengths with the default cutoff returned two metrics of different
\* pct_difference and left out one that is exactly 10 per cent above
C20_Witness ==
    /\ op.name = "get_strengths"
    /\ op.args[1] = MinPctAbove
    /\ Len(returned) >= 2
    /\ returned[1].pct_above # returned[2].pct_above
    /\ \E data \in Range(GetOr(comparisons, "overall", <<>>)) :
          data.pct_difference = Frac(10, 1)



(***************************************************************************)
(* C21: the performers lists.                                              *)
(***************************************************************************)
\* the campaign dicts the call ranked
RankedCampaigns == aggregations["by_campaign"]

\* the position of a campaign dict in list(self.aggregations['by_campaign'].values())
InputPosition(c) == CHOOSE i \in DOMAIN RankedCampaigns : RankedCampaigns[i] = c

\* x is strictly better than y: lower for a metric whose name begins with
\* 'c', higher for any other metric
StrictlyBetter(x, y, metric) ==
    IF metric \in StartsWithC THEN MetricLess(x, y, metric) ELSE MetricLess(y, x, metric)

\* x is listed before y when the list runs best-first (top) or worst-first
RankedBefore(x, y, metric, best_first) ==
    \/ IF best_first THEN StrictlyBetter(x, y, metric) ELSE StrictlyBetter(y, x, metric)
    \/ /\ ~StrictlyBetter(x, y, metric) /\ ~StrictlyBetter(y, x, metric)
       /\ InputPosition(x) < InputPosition(y)

\* list is the first n campaigns of the ranking
IsRanking(list, metric, n, best_first) ==
    /\ Len(list) = IF n < Len(RankedCampaigns) THEN n ELSE Len(RankedCampaigns)
    /\ Range(list) \subseteq Range(RankedCampaigns)
    /\ \A i, j \in DOMAIN list : i < j => RankedBefore(list[i], list[j], metric, best_first)
    /\ \A c \in Range(RankedCampaigns) \ Range(list) :
          \A i \in DOMAIN list : RankedBefore(list[i], c, metric, best_first)

SpikeDropRecs(recs) == SelectSeq(recs, LAMBDA r : r.type \in SpikeDropTypes)

\* the anomalies those recommendations are about
DetailsOf(recs) == [j \in 1..Len(recs) |-> recs[j].detail]

\* spike_investigation for a positive deviation, drop_investigation for a
\* negative one
TypeFollowsSign(rec) ==
    /\ rec.detail.pct_change.k = "num"
    /\ rec.detail.pct_change.num > 0 => rec.type = "spike_investigation"
    /\ rec.detail.pct_change.num < 0 => rec.type = "drop_investigation"

\* C23 as stated: the spike/drop recommendations are issued for the three
\* critical anomalies with the highest Z-scores, in the ranking
\* get_top_anomalies uses, one recommendation each, a spike for a positive
\* percentage deviation and a drop for a negative one.
C23_SpikeDropForHighestZ ==
    op.name = "generate_anomaly_recommendations" =>
        LET recs == SpikeDropRecs(returned)
        IN /\ Range(DetailsOf(recs)) = Range(GetTopAnomalies(anomalies, 3, "critical"))
           /\ Len(recs) = Len(GetTopAnomalies(anomalies, 3, "critical"))
           /\ \A j \in DOMAIN recs : TypeFollowsSign(recs[j])

\* what holds instead: they are issued for the first three critical
\* anomalies in the order the anomalies were recorded
C23_HoldsForFirstRecorded ==
    op.name = "generate_anomaly_recommendations" =>
        LET recs == SpikeDropRecs(returned)
        IN /\ DetailsOf(recs) = FirstN(GetCriticalAnomalies(anomalies), 3)
           /\ \A j \in DOMAIN recs : TypeFollowsSign(recs[j])


(***************************************************************************)
(* C24: the urgent and the recurring recommendations.                      *)
(***************************************************************************)
\* how many anomalies of the list are about metric m
OccurrencesOf(m, list) == Len(SelectSeq(list, LAMBDA a : a.metric = m))

\* the recurring_anomaly recommendations about metric m
RecurringRecs(recs, m) ==
    SelectSeq(recs, LAMBDA r : "metric" \in DOMAIN r /\ r.metric = m)

UrgentRecs(recs) == SelectSeq(recs, LAMBDA r : r.type = "urgent_investigation")

\* C24: the anomaly recommendations hold exactly one urgent_investigation
\* (priority critical) when a critical anomaly is recorded and none
\* otherwise, and exactly one recurring_anomaly recommendation (priority
\* high) for each metric of more than 2 recorded anomalies, none for a
\* metric of 2 or fewer.
C24_UrgentAndRecurringRecs ==
    op.name = "generate_anomaly_recommendations" =>
        /\ Len(UrgentRecs(returned)) =
              IF GetCriticalAnomalies(anomalies) # <<>> THEN 1 ELSE 0
        /\ \A r \in Range(UrgentRecs(returned)) : r.priority = "critical"
        /\ \A m \in Metrics \cup {a.metric : a \in Range(anomalies)} :
              /\ Len(RecurringRecs(returned, m)) =
                    IF OccurrencesOf(m, anomalies) > 2 THEN 1 ELSE 0
              /\ \A r \in Range(RecurringRecs(returned, m)) :
                    r.type = "recurring_anomaly_" \o m /\ r.priority = "high"
        /\ \A r \in Range(returned) :
              "metric" \in DOMAIN r => OccurrencesOf(r.metric, anomalies) > 2

\* one metric has exactly 3 anomalies and got its recommendation, another
\* has exactly 2 and got none, and a critical anomaly is recorded
C24_Witness ==
    /\ op.name = "generate_anomaly_recommendations"
    /\ GetCriticalAnomalies(anomalies) # <<>>
    /\ Len(UrgentRecs(returned)) = 1
    /\ \E m1, m2 \in {a.metric : a \in Range(anomalies)} :
          /\ OccurrencesOf(m1, anomalies) = 3 /\ Len(RecurringRecs(returned, m1)) = 1
          /\ OccurrencesOf(m2, anomalies) = 2 /\ RecurringRecs(returned, m2) = <<>>


(***************************************************************************)
(* C25: the budget recommendations of the strong weather correlations.     *)
(***************************************************************************)
\* the recommendations the last operation produced, if it produces any
WeatherRecsReturned ==
    IF op.name = "generate_recommendations" THEN returned
    ELSE IF op.name = "analyze_all" /\ returned # <<>> THEN returned.recommendations
    ELSE <<>>

PairsOfCorrelations == {<<m, w>> : m \in DOMAIN correlations, w \in Range(WeatherCols)}

\* the (metric, weather variable) pairs of self.correlations that satisfy `strong`
PairsThat(strong(_)) ==
    {pr \in PairsOfCorrelations :
        /\ pr[2] \in DOMAIN correlations[pr[1]]
        /\ strong(correlations[pr[1]][pr[2]])}

\* one recommendation of the type of its sign for each pair that is `strong`
BudgetRecsFollow(strong(_)) ==
    /\ CountOfTypes(WeatherRecsReturned, {"increase_budget_when_favorable"}) =
          Cardinality(PairsThat(LAMBDA data : strong(data) /\ Above(data.correlation, 0)))
    /\ CountOfTypes(WeatherRecsReturned, {"shift_to_digital_when_unfavorable"}) =
          Cardinality(PairsThat(LAMBDA data : strong(data) /\ Below(data.correlation, 0)))

\* C25 as stated: every strong weather correlation (|r| >= 0.6 and
\* significant) yields exactly one budget-shift recommendation,
\* increase_budget_when_favorable for a positive coefficient and
\* shift_to_digital_when_unfavorable for a negative one, and a pair that is
\* not strong yields none.
C25_BudgetRecPerStrongCorrelation ==
    op.name \in {"generate_recommendations", "analyze_all"} =>
        BudgetRecsFollow(LAMBDA data : IsStrong(data, StrongThreshold))

\* what holds instead: the same for the significant pairs of |r| > 0.6
C25_HoldsAboveThreshold ==
    op.name \in {"generate_recommendations", "analyze_all"} =>
        BudgetRecsFollow(LAMBDA data : IsStrongExclusive(data, StrongThreshold))


(***************************************************************************)
(* C26: the remedies of the benchmark weaknesses.                          *)
(***************************************************************************)
\* the recommendations of the list about metric m
RemediesOf(recs, m) == SelectSeq(recs, LAMBDA r : "metric" \in DOMAIN r /\ r.metric = m)

ScaleRecs(recs) == SelectSeq(recs, LAMBDA r : r.type = "scale_success")

\* the text of the recommendation puts the client on the side of the
\* benchmark where the comparison found it
TextFollowsDeviation(rec) == rec.text_says = OverallComparisonOf(rec.metric).status

\* one remedy of the fixed type for each of the first three weaknesses on
\* ctr, cpc, cvr or roas, none for any other metric, and one scale_success
\* for the first strength; `worded` is what is asked of a remedy's text
RemediesFollow(recs, worded(_)) ==
    LET weak == TopThree(GetWeaknesses(comparisons, MaxPctBelow))
        strengths == GetStrengths(comparisons, MinPctAbove)
    IN /\ \A m \in KpiNames :
             LET about == RemediesOf(recs, m)
             IN IF m \in MetricsOf(weak) /\ m \in DOMAIN RemedyOf
                THEN /\ Len(about) = 1
                     /\ about[1].type = RemedyOf[m]
                     /\ worded(about[1])
                ELSE about = <<>>
       /\ Len(ScaleRecs(recs)) = IF strengths # <<>> THEN 1 ELSE 0
       /\ \A r \in Range(ScaleRecs(recs)) : r.strong_metric = strengths[1].metric
       /\ Len(recs) = Len(ScaleRecs(recs)) + CountOfTypes(recs, WeaknessTypes)

\* C26 as stated: each of the top-3 weaknesses (largest magnitude first) on
\* ctr, cpc, cvr or roas yields exactly one remediation recommendation of
\* the type fixed for that metric, whose text describes the gap in the
\* direction the client deviates from the benchmark; a weakness on any
\* other metric yields none; the strongest strength yields exactly one
\* scale_success recommendation, and there is none without a strength.
C26_RemedyPerWeaknessWithTrueText ==
    op.name = "generate_benchmark_recommendations" =>
        RemediesFollow(returned, TextFollowsDeviation)

\* what holds instead: the same, with the text of every remedy but that of
\* cpc following the deviation
C26_HoldsExceptTextOfCpc ==
    op.name = "generate_benchmark_recommendations" =>
        RemediesFollow(returned, LAMBDA rec : rec.metric # "cpc" => TextFollowsDeviation(rec))


(***************************************************************************)
(* C27: an insight only for a category that has items.                     *)
(***************************************************************************)
\* how many insights of the list have the type
InsightsOfType(ins, type) == Len(SelectSeq(ins, LAMBDA i : i.type = type))

\* exactly one insight of the type when the condition holds, none otherwise
EmittedIff(ins, type, condition) == InsightsOfType(ins, type) = IF condition THEN 1 ELSE 0

SeveritiesRecorded == {a.severity : a \in Range(anomalies)}
MetricsRecorded == {a.metric : a \in Range(anomalies)}
TiersCompared == {data.tier : data \in Range(GetOr(comparisons, "overall", <<>>))}

\* the insight names the first metrics of the list, two at most
NamesFirstTwo(insight, list) ==
    insight.metrics = [j \in 1..(IF Len(list) < 2 THEN Len(list) ELSE 2) |-> list[j].metric]

\* C27: critical_anomalies and top_critical_detail are emitted exactly when
\* a critical anomaly is recorded, warning_anomalies exactly when a warning
\* is recorded, one metric_<m> insight exactly for each metric with a
\* recorded anomaly; strong_performance / weak_performance exactly when an
\* overall comparison is tiered top_20 / bottom_20, key_strengths /
\* key_weaknesses exactly when the strengths / weaknesses list is not empty,
\* naming at most its first 2 metrics; with nothing recorded the insight
\* list is empty.
C27_InsightOnlyForNonEmptyCategory ==
    /\ op.name = "generate_anomaly_insights" =>
          /\ EmittedIff(returned, "critical_anomalies", "critical" \in SeveritiesRecorded)
          /\ EmittedIff(returned, "top_critical_detail", "critical" \in SeveritiesRecorded)
          /\ EmittedIff(returned, "warning_anomalies", "warning" \in SeveritiesRecorded)
          /\ \A m \in Metrics \cup MetricsRecorded :
                EmittedIff(returned, "metric_" \o m, m \in MetricsRecorded)
          /\ Len(returned) = Cardinality(MetricsRecorded)
                + (IF "critical" \in SeveritiesRecorded THEN 2 ELSE 0)
                + (IF "warning" \in SeveritiesRecorded THEN 1 ELSE 0)
          /\ anomalies = <<>> => returned = <<>>
    /\ op.name = "generate_benchmark_insights" =>
          LET strengths == GetStrengths(comparisons, MinPctAbove)
              weaknesses == GetWeaknesses(comparisons, MaxPctBelow)
          IN /\ EmittedIff(returned, "strong_performance", "top_20" \in TiersCompared)
             /\ EmittedIff(returned, "weak_performance", "bottom_20" \in TiersCompared)
             /\ EmittedIff(returned, "key_strengths", strengths # <<>>)
             /\ EmittedIff(returned, "key_weaknesses", weaknesses # <<>>)
             /\ \A i \in Range(returned) :
                   /\ i.type = "key_strengths" => NamesFirstTwo(i, strengths)
                   /\ i.type = "key_weaknesses" => NamesFirstTwo(i, weaknesses)
                   /\ i.type \in {"strong_performance", "weak_performance",
                                  "key_strengths", "key_weaknesses"}
             /\ GetOr(comparisons, "overall", <<>>) = <<>> => returned = <<>>

\* critical anomalies and info anomalies are recorded, no warning, and the
\* insights have the two critical entries and no warning entry
C27_Witness ==
    /\ op.name = "generate_anomaly_insights"
    /\ SeveritiesRecorded = {"critical", "info"}
    /\ Cardinality(MetricsRecorded) = 2
    /\ Len(returned) = 4


(***************************************************************************)
(* C28: the counts and the top anomalies of the summary.                   *)
(***************************************************************************)
\* the indices of `list` at which the items of `sub` are found, each once
IsSubList(sub, list) ==
    /\ Range(sub) \subseteq Range(list)
    /\ \A a \in Range(sub) :
          Cardinality({j \in DOMAIN sub : sub[j] = a})
              <= Cardinality({j \in DOMAIN list : list[j] = a})

\* no anomaly of the list has a Z-score above that of a
HasMaximumZ(a, list) == \A b \in Range(list) : ~ZLess(a.z_score, b.z_score)

\* C28: in every summary get_summary returns, after any sequence of
\* detection calls, total_anomalies = critical + warning + info = the
\* length of the anomalies list, and top_anomalies is a sub-list of
\* anomalies of at most 5 entries in non-increasing Z-score order that
\* holds an anomaly of maximum Z-score whenever anomalies is not empty.
C28_SummaryCountsAndTopAnomalies ==
    op.name \in {"get_summary", "analyze_all"} =>
        LET top == returned.top_anomalies
        IN /\ returned.anomalies = anomalies
           /\ returned.total_anomalies = Len(anomalies)
           /\ returned.total_anomalies = returned.critical + returned.warning + returned.info
           /\ Len(top) <= 5
           /\ IsSubList(top, anomalies)
           /\ \A j \in 1..Len(top) - 1 : ~ZLess(top[j].z_score, top[j + 1].z_score)
           /\ anomalies # <<>> => top # <<>> /\ HasMaximumZ(top[1], anomalies)

\* the summary of more than 5 anomalies of more than one severity, the
\* strongest of which was not recorded first
C28_Witness ==
    /\ op.name = "get_summary"
    /\ Len(anomalies) > 5
    /\ Len(returned.top_anomalies) = 5
    /\ Cardinality({a.severity : a \in Range(anomalies)}) > 1
    /\ ~HasMaximumZ(anomalies[1], anomalies)


(***************************************************************************)
(* C29: how large a Z-score can be in a population of n values.            *)
(***************************************************************************)
\* the number of non-missing values of the population the anomaly was
\* measured in: its group's cells of the metric, or the whole column
PopulationSize(a) ==
    IF "group" \in DOMAIN a
    THEN Stats(GroupCells(df, a.metric, a.group_col, a.group)).n
    ELSE Stats(Column(df, a.metric)).n

\* z <= (n-1)/sqrt(n), on the squares
WithinSampleBound(z, n) == z.k = "num" => z.num * n <= (n - 1) * (n - 1) * z.den

\* C29: the Z-score of a value in a population of n non-missing values is at
\* most (n-1)/sqrt(n); with the default threshold 2.0 no anomaly is flagged
\* in a population (dataset or group) of fewer than 6 values, and no
\* critical anomaly is produced in a population of fewer than 11 values.
C29_ZBoundedByPopulationSize ==
    /\ op.name = "calculate_z_scores" =>
          \A i \in DOMAIN returned :
              WithinSampleBound(returned[i], Stats(Column(df, op.args[1])).n)
    /\ \A a \in ReturnedAnomalies(op, returned) \cup AnomalySet(anomalies) :
          /\ WithinSampleBound(a.z_score, PopulationSize(a))
          /\ z_score_threshold = DefaultThreshold => PopulationSize(a) >= 6
          /\ a.severity = "critical" => PopulationSize(a) >= 11

\* one sweep flagged a critical anomaly in a column of 11 values and an
\* anomaly in a column of 6 values
C29_Witness ==
    /\ op.name = "detect_all_anomalies"
    /\ z_score_threshold = DefaultThreshold
    /\ \E a, b \in AnomalySet(anomalies) :
          /\ a.severity = "critical" /\ PopulationSize(a) = 11
          /\ PopulationSize(b) = 6


(***************************************************************************)
(* C30: strengths, weaknesses and tiers against the better/worse judgement.*)
(***************************************************************************)
\* the strengths and the weaknesses the analyzer reports of its comparisons:
\* with the default cutoffs, and those the last call returned
StrengthsReported ==
    MetricsOf(GetStrengths(comparisons, MinPctAbove))
        \cup (IF op.name = "get_strengths" THEN MetricsOf(returned) ELSE {})

WeaknessesReported ==
    MetricsOf(GetWeaknesses(comparisons, MaxPctBelow))
        \cup (IF op.name = "get_weaknesses" THEN MetricsOf(returned) ELSE {})

\* the comparison of one metric does not contradict itself
AgreesWithPerformance(data) ==
    /\ data.performance = "worse" =>
          /\ data.tier \notin {"top_20", "top_40"}
          /\ data.kpi_name \notin StrengthsReported
    /\ data.performance = "better" =>
          /\ data.tier \notin {"bottom_20", "bottom_40"}
          /\ data.kpi_name \notin WeaknessesReported

\* C30 as stated: no metric whose performance is 'worse' is listed as a
\* strength or tiered top_20 / top_40, and no metric whose performance is
\* 'better' is listed as a weakness or tiered bottom_20 / bottom_40, for the
\* cost metrics (cpc, cpa) as well as for the rate metrics.
C30_StrengthsAndTiersAgreeWithPerformance ==
    analyzer = "BenchmarkAnalyzer" =>
        \A data \in Range(GetOr(comparisons, "overall", <<>>)) : AgreesWithPerformance(data)

\* what holds instead: the same for the metrics that are not costs
C30_HoldsForRateMetrics ==
    analyzer = "BenchmarkAnalyzer" =>
        \A data \in Range(GetOr(comparisons, "overall", <<>>)) :
            data.kpi_name \notin CostMetrics => AgreesWithPerformance(data)


(***************************************************************************)
(* The request handler upload_and_generate (app.py) and the DataPipeline   *)
(* (pipeline.py).  A request carries up to MaxUploads files; a file is a   *)
(* filename and what pd.read_csv makes of its bytes: a table, or an        *)
(* exception.  pc is the step the handler is about to run.                 *)
(***************************************************************************)
MaxUploads == 2

\* filename.rsplit('.', 1)[1] of the filenames of the model
ExtensionOf == ("data.csv" :> "csv") @@ ("MORE.CSV" :> "CSV") @@ ("notes.txt" :> "txt")

Filenames == DOMAIN ExtensionOf

\* str.lower() on the strings of the model
LowerCaseOf == ("CSV" :> "csv") @@ ("Campaign" :> "campaign")

Lower(str) == IF str \in DOMAIN LowerCaseOf THEN LowerCaseOf[str] ELSE str

ALLOWED_EXTENSIONS == {"csv"}

\* allowed_file (every filename of the model has a dot)
AllowedFile(filename) == Lower(ExtensionOf[filename]) \in ALLOWED_EXTENSIONS

\* the rows of every table of the model, dates still strings
RequestRows ==
    <<KpiRow(PlainProfile, "spring", 1), KpiRow(PlainProfile, "retarget", 2),
      KpiRow(PlainProfile, "summer", 3)>>

PlainTable == [cols |-> KpiColumns, date_dtype |-> "object", rows |-> RequestRows]

\* a table whose header names one column otherwise
Renamed(d, col, name) ==
    [cols |-> (d.cols \ {col}) \cup {name},
     date_dtype |-> d.date_dtype,
     rows |-> [i \in 1..Len(d.rows) |->
                 [c \in ((DOMAIN d.rows[i]) \ {col}) \cup {name} |->
                    IF c = name THEN d.rows[i][col] ELSE d.rows[i][c]]]]

\* a table with the two weather columns
WithWeather(d) ==
    [cols |-> d.cols \cup {"temperature_c", "rainfall_mm"},
     date_dtype |-> d.date_dtype,
     rows |-> [i \in 1..Len(d.rows) |->
                 [c \in (DOMAIN d.rows[i]) \cup {"temperature_c", "rainfall_mm"} |->
                    CASE c = "temperature_c" -> 20 + 5 * i
                      [] c = "rainfall_mm" -> 3 * (i % 2)
                      [] OTHER -> d.rows[i][c]]]]

\* what pd.read_csv makes of an upload: a table (with rows or with a header
\* only), or an exception
Tables ==
    { PlainTable,
      [cols |-> KpiColumns, date_dtype |-> "object", rows |-> <<>>],
      Renamed(PlainTable, "campaign", "Campaign"),
      WithoutColumn(PlainTable, "campaign"),
      WithWeather(PlainTable) }

EmptyFrame == [cols |-> {}, date_dtype |-> "", rows |-> <<>>]

UploadedFiles ==
    {[filename |-> f, readable |-> TRUE, table |-> t] : f \in Filenames, t \in Tables}
    \cup {[filename |-> f, readable |-> FALSE, table |-> EmptyFrame] : f \in Filenames}

\* upload_paths after the loop that saves the allowed files: a dict, as the
\* sequence of its items in insertion order; a filename saved twice keeps
\* its place and holds the later file (secure_filename leaves the filenames
\* of the model as they are)
SaveUploads(files) ==
    LET allowed == SelectSeq(files, LAMBDA f : AllowedFile(f.filename))
        names == Unique([j \in 1..Len(allowed) |-> allowed[j].filename])
        last(name) == CHOOSE j \in 1..Len(allowed) :
                          /\ allowed[j].filename = name
                          /\ \A k \in (j + 1)..Len(allowed) : allowed[k].filename # name
    IN [j \in 1..Len(names) |-> [filename |-> names[j], file |-> allowed[last(names[j])]]]

\* load_csv: the DataFrame, or None (<<>>) when pd.read_csv raises
LoadCsvAsEmptyFrame(file) == file.table
LoadCsv(file) == IF file.readable THEN file.table ELSE <<>>

\* load_multiple_csvs: self.dataframes, as the sequence of its items
LoadMultipleCsvs(file_paths) ==
    LET loaded == [j \in 1..Len(file_paths) |->
                      [name |-> file_paths[j].filename, df |-> LoadCsv(file_paths[j].file)]]
    IN SelectSeq(loaded, LAMBDA item : item.df # <<>>)

\* merge_all_data past its raise: the first table loaded, its column names
\* lower-cased and its date column, if any, converted with pd.to_datetime
MergeAllData(frames) ==
    LET first == frames[1].df
        lowered == [cols |-> {Lower(c) : c \in first.cols},
                    date_dtype |-> first.date_dtype,
                    rows |-> [i \in 1..Len(first.rows) |->
                                [c \in {Lower(x) : x \in DOMAIN first.rows[i]} |->
                                   first.rows[i][CHOOSE x \in DOMAIN first.rows[i] :
                                                     Lower(x) = c]]]]
    IN [lowered EXCEPT !.date_dtype =
            IF "date" \in lowered.cols THEN "datetime64[ns]" ELSE @]

\* calculate_all raises: calculate_basic_kpis without a counter column,
\* calculate_by_date without visits, generate_kpi_summary without campaigns
CalculateAllRaises(d) ==
    \/ ~(RequiredCounters \subseteq d.cols)
    \/ ByCampaignRaises(d)
    \/ ("date" \in d.cols /\ "visits" \notin d.cols)
    \/ "campaign" \notin d.cols

\* the numeric columns of the tables of the model, in column order
\* (select_dtypes(include=[np.number]))
RequestNumericColumns ==
    <<"impressions", "clicks", "conversions", "spend", "revenue", "visits",
      "temperature_c", "rainfall_mm">>

\* the KPIs of the tables of the model are whole numbers; the operators of
\* the BenchmarkAnalyzer take them as such
Whole(f) == f.num \div f.den

WholeKpis(kpi_dict) ==
    [m \in DOMAIN kpi_dict |-> IF m \in KpiNames THEN Whole(kpi_dict[m]) ELSE kpi_dict[m]]

WholeSummary(summary) ==
    [overall |-> WholeKpis(summary.overall),
     by_channel |-> [c \in 1..Len(summary.by_channel) |-> WholeKpis(summary.by_channel[c])]]

\* what benchmarks/industry_benchmarks.json holds when BenchmarkAnalyzer is
\* constructed: nothing readable ({}), a table, or JSON of another shape
RequestBenchmarks == {<<>>, [overall |-> BenchEntry(20)], [overall |-> NotAMapping("number")]}

\* how doc.build ends
PdfOutcomes == {"written", "OSError"}

Called(step) == [step |-> step, event |-> "called"]
Returned(step) == [step |-> step, event |-> "returned"]
Raised(step, exception) == [step |-> step, event |-> "raised", exception |-> exception]

NoResponse == [status |-> "", code |-> 0]

\* jsonify({'error': message}), code
ErrorReturn(message, code) == [status |-> "error", code |-> code, message |-> message]

\* the except clause: jsonify({'status': 'error', 'message': str(e)}), 500
ExceptionReturn(message) == [status |-> "error", code |-> 500, message |-> message]

\* the request arrives
InitRequest ==
    /\ analyzer = "upload_and_generate"
    /\ \E n \in 0..MaxUploads : \E files \in [1..n -> UploadedFiles] :
           op = [name |-> "upload_and_generate", args |-> <<files>>]
    /\ pc = "save_uploads"
    /\ returned = <<>>
    /\ df = EmptyFrame
    /\ combined_df = EmptyFrame
    /\ upload_paths = <<>>
    /\ dataframes = <<>>
    /\ calls = <<>>
    /\ summaries = <<>>
    /\ response = NoResponse
    /\ kpis = <<>> /\ aggregations = <<>>
    /\ NoAnomalyDetector /\ NoBenchmarkAnalyzer
    /\ correlations = <<>> /\ insights = <<>> /\ recommendations = <<>>
    /\ pearson = PearsonOracle(1)

\* what the steps of the handler leave alone
notRequest == <<df, op, returned, anomalyVars, kpis, aggregations, benchVars, weatherVars,
                analyzer>>

\* the checks of the request and the loop that saves its files
SaveUploadsStep ==
    /\ pc = "save_uploads"
    /\ LET files == op.args[1]
       IN IF files = <<>>
          THEN /\ response' = ErrorReturn("No files selected", 400)
               /\ pc' = "responded"
               /\ UNCHANGED upload_paths
          ELSE /\ upload_paths' = SaveUploads(files)
               /\ IF upload_paths' = <<>>
                  THEN /\ response' = ErrorReturn("No valid CSV files uploaded", 400)
                       /\ pc' = "responded"
                  ELSE /\ pc' = "DataPipeline"
                       /\ UNCHANGED response
    /\ UNCHANGED <<combined_df, dataframes, calls, summaries, notRequest>>

\* STEP 1: DataPipeline(upload_paths).merge_all_data()
MergeAllDataStep ==
    /\ pc = "DataPipeline"
    /\ dataframes' = LoadMultipleCsvs(upload_paths)
    /\ IF dataframes' = <<>>
       THEN /\ calls' = calls \o <<Called("DataPipeline"), Raised("DataPipeline", "ValueError")>>
            /\ response' = ExceptionReturn("No CSV files loaded successfully")
            /\ pc' = "responded"
            /\ UNCHANGED combined_df
       ELSE /\ combined_df' = MergeAllData(dataframes')
            /\ calls' = calls \o <<Called("DataPipeline"), Returned("DataPipeline")>>
            /\ pc' = "KPICalculator"
            /\ UNCHANGED response
    /\ UNCHANGED <<upload_paths, summaries, notRequest>>

\* STEP 2: KPICalculator(combined_df).calculate_all()
KpiCalculationStep ==
    /\ pc = "KPICalculator"
    /\ IF CalculateAllRaises(combined_df)
       THEN /\ calls' = calls \o <<Called("KPICalculator"), Raised("KPICalculator", "KeyError")>>
            /\ response' = ExceptionReturn("KeyError")
            /\ pc' = "responded"
            /\ UNCHANGED summaries
       ELSE /\ summaries' = ("kpi_summary" :> CalculateAllFresh(combined_df)) @@ summaries
            /\ calls' = calls \o <<Called("KPICalculator"), Returned("KPICalculator")>>
            /\ pc' = "WeatherAnalyzer"
            /\ UNCHANGED response
    /\ UNCHANGED <<combined_df, upload_paths, dataframes, notRequest>>

\* WeatherAnalyzer.analyze_all on a fresh WeatherAnalyzer(d)
WeatherAnalyzeAll(d, oracle) ==
    LET corrs == CalculateCorrelations(d, oracle)
    IN GenerateSummary(d, oracle, corrs, GenerateWeatherInsights(d, corrs),
                       GenerateRecommendations(d, corrs))

\* STEP 3: weather_summary is {} unless check_weather_data_available()
WeatherAnalysisStep ==
    /\ pc = "WeatherAnalyzer"
    /\ summaries' = ("weather_summary" :>
                        IF CheckWeatherDataAvailable(combined_df)
                        THEN WeatherAnalyzeAll(combined_df, pearson)
                        ELSE <<>>) @@ summaries
    /\ calls' = calls \o <<Called("WeatherAnalyzer"), Returned("WeatherAnalyzer")>>
    /\ pc' = "AnomalyDetector"
    /\ UNCHANGED <<combined_df, upload_paths, dataframes, response, notRequest>>

\* STEP 4: AnomalyDetector(combined_df).analyze_all()
AnomalyDetectionStep ==
    /\ pc = "AnomalyDetector"
    /\ LET metrics == SelectSeq(RequestNumericColumns, LAMBDA c : c \in combined_df.cols)
           found == StoredAnomalies(<<>>, DetectAll(combined_df, metrics, DefaultThreshold))
       IN summaries' = ("anomaly_summary" :> GetAnomalySummary(found)) @@ summaries
    /\ calls' = calls \o <<Called("AnomalyDetector"), Returned("AnomalyDetector")>>
    /\ pc' = "BenchmarkAnalyzer"
    /\ UNCHANGED <<combined_df, upload_paths, dataframes, response, notRequest>>

\* BenchmarkAnalyzer.analyze_all on a fresh BenchmarkAnalyzer(summary),
\* when it does not raise
BenchAnalyzeAll(summary, table) ==
    IF table = <<>> THEN <<>>
    ELSE LET comps == AfterCompareByChannel(summary, table,
                          AfterCompareOverall(summary, table, <<>>))
         IN GetBenchSummary(comps, GenerateBenchmarkInsights(comps),
                            GenerateBenchmarkRecommendations(comps), table)

\* STEP 5: BenchmarkAnalyzer(kpi_summary).analyze_all()
BenchmarkingStep ==
    /\ pc = "BenchmarkAnalyzer"
    /\ \E table \in RequestBenchmarks :
         LET summary == WholeSummary(summaries["kpi_summary"])
         IN IF table # <<>> /\ (CompareOverallRaises(table)
                                   \/ CompareByChannelRaises(summary, table))
            THEN /\ calls' = calls \o <<Called("BenchmarkAnalyzer"),
                                        Raised("BenchmarkAnalyzer", "AttributeError")>>
                 /\ response' = ExceptionReturn("AttributeError")
                 /\ pc' = "responded"
                 /\ UNCHANGED summaries
            ELSE /\ summaries' = ("bench_summary" :> BenchAnalyzeAll(summary, table))
                                    @@ summaries
                 /\ calls' = calls \o <<Called("BenchmarkAnalyzer"),
                                        Returned("BenchmarkAnalyzer")>>
                 /\ pc' = "ReportBuilder"
                 /\ UNCHANGED response
    /\ UNCHANGED <<combined_df, upload_paths, dataframes, notRequest>>

\* the 'summary' of the success response
ResponseSummary(sums) ==
    [kpis |-> [total_conversions |-> sums["kpi_summary"].overall.total_conversions,
               total_revenue |-> sums["kpi_summary"].overall.total_revenue,
               avg_ctr |-> sums["kpi_summary"].overall.ctr,
               avg_roas |-> sums["kpi_summary"].overall.roas],
     anomalies |-> [total |-> sums["anomaly_summary"].total_anomalies,
                    critical |-> sums["anomaly_summary"].critical],
     benchmarking |-> [strengths |-> Len(GetOr(sums["bench_summary"], "strengths", <<>>))]]

\* STEP 6: ReportBuilder(client_name).generate_pdf(...), then the response
ReportGenerationStep ==
    /\ pc = "ReportBuilder"
    /\ \E outcome \in PdfOutcomes :
         IF outcome # "written"
         THEN /\ calls' = calls \o <<Called("ReportBuilder"), Raised("ReportBuilder", outcome)>>
              /\ response' = ExceptionReturn(outcome)
         ELSE /\ calls' = calls \o <<Called("ReportBuilder"), Returned("ReportBuilder")>>
              /\ response' = [status |-> "success", code |-> 200,
                              message |-> "Report generated successfully",
                              summary |-> ResponseSummary(summaries)]
    /\ pc' = "responded"
    /\ UNCHANGED <<combined_df, upload_paths, dataframes, summaries, notRequest>>

NextRequest ==
    \/ SaveUploadsStep
    \/ MergeAllDataStep
    \/ KpiCalculationStep
    \/ WeatherAnalysisStep
    \/ AnomalyDetectionStep
    \/ BenchmarkingStep
    \/ ReportGenerationStep

SpecRequest == InitRequest /\ [][NextRequest]_vars


(***************************************************************************)
(* The order of the steps of a request, and a request none of whose files  *)
(* loads.                                                                  *)
(***************************************************************************)
\* the fixed order: pipeline, KPI Aggregator, Weather Correlator, Anomaly
\* Detector, Benchmark Comparator, renderer
StepOrder ==
    <<"DataPipeline", "KPICalculator", "WeatherAnalyzer", "AnomalyDetector",
      "BenchmarkAnalyzer", "ReportBuilder">>

\* the files of the request the handler hands to the pipeline
HandedToPipeline == SaveUploads(op.args[1])

\* pd.read_csv fails on every one of them (or there is none)
NoFileLoads == \A j \in 1..Len(HandedToPipeline) : ~HandedToPipeline[j].file.readable

\* the calls made so far are the first steps of the fixed order, one after
\* the other, and every step but the last one returned
InFixedOrder ==
    /\ Len(calls) % 2 = 0
    /\ Len(calls) <= 2 * Len(StepOrder)
    /\ \A k \in 1..(Len(calls) \div 2) :
          /\ calls[2 * k - 1] = Called(StepOrder[k])
          /\ calls[2 * k].step = StepOrder[k]
          /\ calls[2 * k].event \in {"returned", "raised"}
          /\ 2 * k < Len(calls) => calls[2 * k].event = "returned"

\* a step that raised ended the run with an error response
RaiseEndsRun ==
    (calls # <<>> /\ calls[Len(calls)].event = "raised") =>
        pc = "responded" /\ response.status = "error"

\* C22: when no uploaded file can be loaded into a table, the run aborts:
\* merge_all_data, if the handler reaches it, raises, no analyzer and no
\* renderer runs, no summary exists and the response is an error.
\* Otherwise the steps run in the fixed order pipeline, KPICalculator,
\* WeatherAnalyzer, AnomalyDetector, BenchmarkAnalyzer, ReportBuilder, each
\* called only once the previous one returned; a step that raises is the
\* last one and ends the run with an error response, and a success response
\* means that all six returned.
C22_AbortsWhenNothingLoadsElseFixedOrder ==
    /\ NoFileLoads =>
          /\ \A e \in Range(calls) : e.step = "DataPipeline" /\ e.event # "returned"
          /\ summaries = <<>>
          /\ pc = "responded" =>
                /\ response.status = "error"
                /\ HandedToPipeline # <<>> =>
                      calls = <<Called("DataPipeline"), Raised("DataPipeline", "ValueError")>>
    /\ InFixedOrder
    /\ RaiseEndsRun
    /\ response.status = "success" =>
          calls = Flatten([k \in 1..Len(StepOrder) |->
                              <<Called(StepOrder[k]), Returned(StepOrder[k])>>])

\* a request with a saved file that does not load has been answered
C22_Witness ==
    /\ pc = "responded"
    /\ upload_paths # <<>>
    /\ NoFileLoads
    /\ calls # <<>>
    /\ calls[Len(calls)] = Raised("DataPipeline", "ValueError")
    /\ response.code = 500

=========================================================================
